---------------------------- MODULE Spec2Model ----------------------------
(***************************************************************************)
(* A model of the tile archive engine of webmap-archiver:                  *)
(*   - TileFetcher (tiles/fetcher.py): fetch_tiles / fetch_tile, also      *)
(*     under a clock (_rate_limit_wait, backoff sleeps, cancellation)      *)
(*   - TileMath and CoverageAnalyzer (tiles/fetcher.py)                    *)
(*   - layer_inspector (tiles/layer_inspector.py): decompress_tile,        *)
(*     extract_layer_names_protobuf                                        *)
(*   - PMTilesBuilder (tiles/pmtiles.py): add_tile, set_metadata, build,   *)
(*     _ensure_gzipped                                                     *)
(*   - PMTilesReader (templates/serve.py): _read_header, _decompress,      *)
(*     _zxy_to_tile_id, get_tile, and get_tile called by several threads   *)
(* Each component has its own specification (SpecFetch, SpecBuild, ...);   *)
(* the variables of the other components stay at their initial values.     *)
(***************************************************************************)
EXTENDS Integers, Sequences, FiniteSets, TLC

VARIABLES
    \* ---- TileFetcher.fetch_tiles ----
    coords,          \* the coords argument (a list of TileCoord)
    concurrency,     \* the concurrency argument
    mainPc,          \* position of the fetch_tiles coroutine
    taskPc,          \* position of each fetch_with_semaphore task
    attempt,         \* the loop variable `attempt` of each fetch_tile call
    taskResult,      \* what each finished task returned
    semaphore,       \* free permits of asyncio.Semaphore(concurrency)
    doneOrder,       \* tasks in their order of completion (as_completed)
    results,         \* the `results` list of fetch_tiles
    completed,       \* the `completed` counter of fetch_tiles
    \* ---- TileFetcher under a clock (SpecFetchTimed) ----
    clock,           \* time.time(), in ticks
    last_request_time,  \* TileFetcher._last_request_time
    wakeAt,          \* when the asyncio.sleep of each task is over
    issues,          \* the requests sent: the time of the last one and the
                     \* shortest time between two of them
    outcomes,        \* how the last attempt of each task ended
    \* ---- one call of a function of the codec ----
    fn,              \* the function called
    arg,             \* its argument
    ret,             \* the values returned so far, in order
    \* ---- PMTilesBuilder and the file at its output path ----
    tiles,           \* PMTilesBuilder.tiles
    metadata,        \* PMTilesBuilder.metadata (Nothing: None)
    outFile,         \* the bytes of the file at output_path (Nothing: no file)
    buildPc,         \* position of build()
    buildIdx,        \* index of the tile the write loop of build() is at
    writer,          \* the pmtiles Writer that build() created
    handed,          \* the calls writer.write_tile(tile_id, data) made
    lastOp,          \* the last method of the builder that was called
    lastError,       \* the exception it raised (None: it returned)
    readBack,        \* the last get_tile on the built archive and its result
    \* ---- one PMTilesReader used by several threads (SpecReader) ----
    reader,          \* the file and the header attributes (Nothing: none)
    filePos,         \* the position of the file object self.file
    directory_cache, \* PMTilesReader._directory_cache
    lookup           \* the get_tile call of each thread and its locals

fetchVars == <<coords, concurrency, mainPc, taskPc, attempt, taskResult,
               semaphore, doneOrder, results, completed>>

\* SpecFetch leaves time out (a wait may end at any moment) and keeps these
\* at their initial values; SpecFetchTimed runs the same tasks under a clock.
timeVars == <<clock, last_request_time, wakeAt, issues, outcomes>>

callVars == <<fn, arg, ret>>

buildVars == <<tiles, metadata, outFile, buildPc, buildIdx, writer, handed,
               lastOp, lastError, readBack>>

readVars == <<reader, filePos, directory_cache, lookup>>

vars == <<fetchVars, timeVars, callVars, buildVars, readVars>>

\* What an action of one component leaves alone: the other components.
notFetch == <<timeVars, callVars, buildVars, readVars>>
notCall == <<fetchVars, timeVars, buildVars, readVars>>
notBuild == <<fetchVars, timeVars, callVars, readVars>>
notRead == <<fetchVars, timeVars, callVars, buildVars>>

\* Python's None for a status or an error; an optional value (bytes | None)
\* is Nothing or Some(v).
None == "None"
Nothing == <<>>
Some(v) == <<v>>

(***************************************************************************)
(* Bounds of the model.                                                    *)
(***************************************************************************)
MaxCoords == 2
MaxConcurrency == 2
MaxBytes == 6
MaxZoom == 3
MaxCode == 5
MaxTiles == 2
MaxLayers == 2
MaxPbLen == 3
MaxClock == 5

(***************************************************************************)
(* The state of a component that is not running.                           *)
(***************************************************************************)
\* One tick of the clock is a second; with rate_limit = 1 request per second
\* min_interval (1.0 / rate_limit) is one tick, and
\* asyncio.sleep(1.0 * (attempt + 1)) lasts attempt + 1 ticks.
TicksPerSecond == 1
MinInterval == TicksPerSecond

\* The fetcher has just been made: _last_request_time is 0.0 and the clock
\* shows a time later than min_interval.
ClockIdle ==
    /\ clock = MinInterval
    /\ last_request_time = 0
    /\ wakeAt = <<>>
    /\ issues = [last |-> Nothing, closest |-> MinInterval]
    /\ outcomes = <<>>

FetchIdle ==
    /\ ClockIdle
    /\ coords = <<>>
    /\ concurrency = 1
    /\ mainPc = "idle"
    /\ taskPc = <<>>
    /\ attempt = <<>>
    /\ taskResult = <<>>
    /\ semaphore = 0
    /\ doneOrder = <<>>
    /\ results = <<>>
    /\ completed = 0

\* No builder exists.
BuildIdle ==
    /\ tiles = <<>>
    /\ metadata = Nothing
    /\ outFile = Nothing
    /\ buildPc = "idle"
    /\ buildIdx = 0
    /\ writer = Nothing
    /\ handed = <<>>
    /\ lastOp = None
    /\ lastError = None
    /\ readBack = Nothing

\* Only a codec function is called: the other components are idle.
\* No reader has been opened.
ReaderIdle ==
    /\ reader = <<>>
    /\ filePos = 0
    /\ directory_cache = <<>>
    /\ lookup = <<>>

OnlyCall == FetchIdle /\ BuildIdle /\ ReaderIdle

(***************************************************************************)
(* Sequence helpers.                                                       *)
(***************************************************************************)
SeqsUpTo(S, n) == UNION {[1..k -> S] : k \in 0..n}

Max(a, b) == IF a >= b THEN a ELSE b
Min(a, b) == IF a <= b THEN a ELSE b

CountIn(s, P(_)) == Cardinality({k \in 1..Len(s) : P(s[k])})

(***************************************************************************)
(*                              TileFetcher                                *)
(***************************************************************************)
TileCoord(z, x, y) == [z |-> z, x |-> x, y |-> y]

\* The tiles the remote server is asked for, and how the server treats each:
\* one it serves, one it does not have, one it protects, one whose requests
\* end in any way at all.
tServed == TileCoord(1, 0, 0)
tAbsent == TileCoord(1, 1, 0)
tProtected == TileCoord(1, 0, 1)
tUnstable == TileCoord(1, 1, 1)
FetchCoords == {tServed, tAbsent, tProtected, tUnstable}

\* The body the server sends for a tile.
Body(c) == <<c.z, c.x, c.y>>

\* What one session.get attempt can end in: an HTTP status, a timeout
\* (asyncio.TimeoutError) or another exception.
AnyOutcome == {"200", "401", "403", "404", "500", "timeout", "exception"}

ServerOutcomes(c) ==
    CASE c = tServed -> {"200"}
      [] c = tAbsent -> {"404"}
      [] c = tProtected -> {"401", "403"}
      [] OTHER -> AnyOutcome

\* TileFetcher.__init__: max_retries defaults to 2.
max_retries == 2

FetchResult(c, content, status, error) ==
    [coord |-> c, content |-> content, status |-> status, error |-> error]

\* What stands for the result of a task that has not finished.
NoResultYet == FetchResult(TileCoord(0, 0, 0), Nothing, None, "pending")

\* FetchResult.success
Success(r) == r.content /= Nothing /\ r.status = "200"

\* The coordinate a task was created for: the loop variable is passed as an
\* argument to fetch_with_semaphore, so each task keeps its own.
TaskCoordLateBound(i) == coords[Len(coords)]
TaskCoord(i) == coords[i]

\* The except clauses of fetch_tile: asyncio.TimeoutError and Exception.
HandledOnlyTimeout(outcome) == outcome = "timeout"
Handled(outcome) == outcome \in {"timeout", "exception"}

Tasks == DOMAIN taskPc

\* A return from fetch_tile that keeps the permit of the semaphore.
TaskReturnHoldingPermit(i, r) ==
    /\ taskPc' = [taskPc EXCEPT ![i] = "done"]
    /\ taskResult' = [taskResult EXCEPT ![i] = r]
    /\ doneOrder' = Append(doneOrder, i)
    /\ UNCHANGED <<attempt, semaphore>>

\* A task returns from fetch_tile: the `async with semaphore` block is left
\* and the task completes.
TaskReturn(i, r) ==
    /\ taskPc' = [taskPc EXCEPT ![i] = "done"]
    /\ taskResult' = [taskResult EXCEPT ![i] = r]
    /\ semaphore' = semaphore + 1
    /\ doneOrder' = Append(doneOrder, i)
    /\ UNCHANGED attempt

\* An exception leaves fetch_tile: the semaphore is released by the
\* `async with`, the task completes with the exception.
TaskRaise(i) ==
    /\ taskPc' = [taskPc EXCEPT ![i] = "raised"]
    /\ semaphore' = semaphore + 1
    /\ doneOrder' = Append(doneOrder, i)
    /\ UNCHANGED <<attempt, taskResult>>

\* A backoff sleep outside the `async with semaphore` block.
RetryOutsideSemaphore(i, r) ==
    IF attempt[i] < max_retries
    THEN /\ taskPc' = [taskPc EXCEPT ![i] = "backoff"]
         /\ semaphore' = semaphore + 1
         /\ UNCHANGED <<attempt, taskResult, doneOrder>>
    ELSE TaskReturn(i, r)

\* `if attempt < self.max_retries: await asyncio.sleep(...); continue`,
\* else return the failure.
RetryOrReturn(i, r) ==
    IF attempt[i] < max_retries
    THEN /\ taskPc' = [taskPc EXCEPT ![i] = "backoff"]
         /\ UNCHANGED <<attempt, taskResult, semaphore, doneOrder>>
    ELSE TaskReturn(i, r)

FailureResult(c, outcome) ==
    IF outcome = "timeout" THEN FetchResult(c, Nothing, None, "Timeout")
    ELSE IF outcome = "exception"
    THEN FetchResult(c, Nothing, None, "exception")
    ELSE FetchResult(c, Nothing, outcome, "HTTP")

\* No call of a codec function is under way.
CallIdle == fn = None /\ arg = None /\ ret = <<>>

FetchInit ==
    /\ CallIdle /\ BuildIdle /\ ReaderIdle /\ ClockIdle
    /\ coords \in SeqsUpTo(FetchCoords, MaxCoords)
    /\ concurrency \in 1..MaxConcurrency
    /\ mainPc = "start"
    /\ taskPc = <<>>
    /\ attempt = <<>>
    /\ taskResult = <<>>
    /\ semaphore = 0
    /\ doneOrder = <<>>
    /\ results = <<>>
    /\ completed = 0

\* fetch_tiles up to its first await on a task: the semaphore and one task
\* per coordinate are created; no task has run yet.
CreateTasks ==
    /\ mainPc = "start"
    /\ mainPc' = "gathering"
    /\ semaphore' = concurrency
    /\ taskPc' = [i \in 1..Len(coords) |-> "created"]
    /\ attempt' = [i \in 1..Len(coords) |-> 0]
    /\ taskResult' = [i \in 1..Len(coords) |-> NoResultYet]
    /\ UNCHANGED <<coords, concurrency, doneOrder, results, completed>>
    /\ UNCHANGED notFetch

\* A task enters `async with semaphore` (waiters are served first come,
\* first served) and starts fetch_tile, which first awaits _rate_limit_wait.
AcquireSemaphore(i) ==
    /\ mainPc = "gathering"
    /\ taskPc[i] = "created"
    /\ semaphore > 0
    /\ \A j \in 1..(i - 1) : taskPc[j] /= "created"
    /\ semaphore' = semaphore - 1
    /\ taskPc' = [taskPc EXCEPT ![i] = "rate_wait"]
    /\ UNCHANGED <<coords, concurrency, mainPc, attempt, taskResult,
                   doneOrder, results, completed>>
    /\ UNCHANGED notFetch

\* _rate_limit_wait returns; the retry loop starts and issues session.get.
\* With no iteration to run the function falls through to its last return.
RateLimitDone(i) ==
    /\ taskPc[i] = "rate_wait"
    /\ IF max_retries + 1 <= 0
       THEN TaskReturn(i, FetchResult(TaskCoord(i), Nothing, None,
                                      "Max retries exceeded"))
       ELSE /\ taskPc' = [taskPc EXCEPT ![i] = "request"]
            /\ UNCHANGED <<attempt, taskResult, semaphore, doneOrder>>
    /\ UNCHANGED <<coords, concurrency, mainPc, results, completed>>
    /\ UNCHANGED notFetch

\* The attempt in flight ends: a response arrives, or the request times out
\* or raises.  (_request_count, incremented here, is never read and is left
\* out of the state.)
Respond(i, outcome) ==
    /\ taskPc[i] = "request"
    /\ outcome \in ServerOutcomes(TaskCoord(i))
    /\ IF outcome \in {"timeout", "exception"}
       THEN /\ IF Handled(outcome)
               THEN RetryOrReturn(i, FailureResult(TaskCoord(i), outcome))
               ELSE TaskRaise(i)
       ELSE IF outcome = "200"
       THEN /\ taskPc' = [taskPc EXCEPT ![i] = "reading"]
            /\ UNCHANGED <<attempt, taskResult, semaphore, doneOrder>>
       ELSE IF outcome \in {"401", "403"}
       THEN TaskReturn(i, FetchResult(TaskCoord(i), Nothing, outcome,
                                      "Authentication required"))
       ELSE IF outcome = "404"
       THEN TaskReturn(i, FetchResult(TaskCoord(i), Nothing, "404",
                                      "Tile not found"))
       ELSE RetryOrReturn(i, FailureResult(TaskCoord(i), outcome))
    /\ UNCHANGED <<coords, concurrency, mainPc, results, completed>>
    /\ UNCHANGED notFetch

\* `content = await response.read()` of a 200 response: the body arrives,
\* or (on a server that may fail) the read raises inside the try block.
ReadBody(i, ok) ==
    /\ taskPc[i] = "reading"
    /\ ok \in (IF ServerOutcomes(TaskCoord(i)) = {"200"}
               THEN {TRUE} ELSE BOOLEAN)
    /\ IF ok
       THEN TaskReturn(i, FetchResult(TaskCoord(i), Some(Body(TaskCoord(i))),
                                      "200", None))
       ELSE IF Handled("exception")
       THEN RetryOrReturn(i, FailureResult(TaskCoord(i), "exception"))
       ELSE TaskRaise(i)
    /\ UNCHANGED <<coords, concurrency, mainPc, results, completed>>
    /\ UNCHANGED notFetch

\* asyncio.sleep(1.0 * (attempt + 1)) is over: `continue`.
BackoffDone(i) ==
    /\ taskPc[i] = "backoff"
    /\ taskPc' = [taskPc EXCEPT ![i] = "request"]
    /\ attempt' = [attempt EXCEPT ![i] = attempt[i] + 1]
    /\ UNCHANGED <<coords, concurrency, mainPc, taskResult, semaphore,
                   doneOrder, results, completed>>
    /\ UNCHANGED notFetch

\* One turn of `for task in asyncio.as_completed(tasks)`: the next task in
\* order of completion is awaited; its result is appended, or its exception
\* is raised out of fetch_tiles.
Gather ==
    /\ mainPc = "gathering"
    /\ completed < Len(doneOrder)
    /\ LET i == doneOrder[completed + 1] IN
       IF taskPc[i] = "raised"
       THEN /\ mainPc' = "raised"
            /\ UNCHANGED <<results, completed>>
       ELSE /\ results' = Append(results, taskResult[i])
            /\ completed' = completed + 1
            /\ UNCHANGED mainPc
    /\ UNCHANGED <<coords, concurrency, taskPc, attempt, taskResult,
                   semaphore, doneOrder>>
    /\ UNCHANGED notFetch

\* Every task has been gathered: `return results`.
ReturnResults ==
    /\ mainPc = "gathering"
    /\ completed = Len(coords)
    /\ mainPc' = "returned"
    /\ UNCHANGED <<coords, concurrency, taskPc, attempt, taskResult,
                   semaphore, doneOrder, results, completed>>
    /\ UNCHANGED notFetch

FetchNext ==
    \/ CreateTasks
    \/ \E i \in Tasks : AcquireSemaphore(i)
    \/ \E i \in Tasks : RateLimitDone(i)
    \/ \E i \in Tasks : \E outcome \in AnyOutcome : Respond(i, outcome)
    \/ \E i \in Tasks : \E ok \in BOOLEAN : ReadBody(i, ok)
    \/ \E i \in Tasks : BackoffDone(i)
    \/ Gather
    \/ ReturnResults

SpecFetch == FetchInit /\ [][FetchNext]_vars

\* The steps of task i, and those of fetch_tiles itself.
TaskStep(i) ==
    /\ i \in Tasks
    /\ \/ AcquireSemaphore(i)
       \/ RateLimitDone(i)
       \/ \E outcome \in AnyOutcome : Respond(i, outcome)
       \/ \E ok \in BOOLEAN : ReadBody(i, ok)
       \/ BackoffDone(i)

MainStep == CreateTasks \/ Gather \/ ReturnResults

\* The event loop runs every coroutine that can go on, every sleep ends and
\* every request ends in a response, a timeout or an exception.  The tiles
\* are the one that is served and the one whose requests end in any way.
FetchFairInit ==
    /\ FetchInit
    /\ \A k \in 1..Len(coords) : coords[k] \in {tServed, tUnstable}

SpecFetchFair ==
    /\ FetchFairInit
    /\ [][FetchNext]_vars
    /\ WF_vars(MainStep)
    /\ \A i \in 1..MaxCoords : WF_vars(TaskStep(i))

(***************************************************************************)
(*                    TileFetcher under a clock                            *)
(*                                                                         *)
(* The same tasks with time: _rate_limit_wait and the retry backoff sleep  *)
(* until their wake-up time, the time of every request sent is noted, and  *)
(* the caller may cancel fetch_tiles (a deadline set with                  *)
(* asyncio.wait_for, or Task.cancel).                                      *)
(***************************************************************************)
\* `async with aiohttp.ClientSession(...)` has been left: the session is
\* closed and session.get raises without sending anything.
SessionClosed == mainPc \in {"returned", "raised", "cancelled"}

\* session.get(...) is entered by task i: the request is sent, unless the
\* session is closed.
SendRequest(i) ==
    issues' = IF SessionClosed THEN issues
              ELSE [last |-> Some(clock),
                    closest |-> IF issues.last = Nothing THEN issues.closest
                                ELSE Min(issues.closest,
                                         clock - issues.last[1])]

\* How an attempt can end, as seen by fetch_tile: a 200 whose body was read,
\* a permanent status, or something that is retried.
Delivered == {"200"}
Permanent == {"401", "403", "404"}
Transient == {"500", "timeout", "exception", "read error"}

FetchTimedInit ==
    /\ CallIdle /\ BuildIdle /\ ReaderIdle /\ ClockIdle
    /\ coords \in [1..2 -> FetchCoords]
    /\ concurrency \in 1..2
    /\ mainPc = "start"
    /\ taskPc = <<>>
    /\ attempt = <<>>
    /\ taskResult = <<>>
    /\ semaphore = 0
    /\ doneOrder = <<>>
    /\ results = <<>>
    /\ completed = 0

\* The tasks are created (CreateTasks) and their logs start empty.
CreateTimedTasks ==
    /\ mainPc = "start"
    /\ mainPc' = "gathering"
    /\ semaphore' = concurrency
    /\ taskPc' = [i \in 1..Len(coords) |-> "created"]
    /\ attempt' = [i \in 1..Len(coords) |-> 0]
    /\ taskResult' = [i \in 1..Len(coords) |-> NoResultYet]
    /\ wakeAt' = [i \in 1..Len(coords) |-> 0]
    /\ outcomes' = [i \in 1..Len(coords) |-> None]
    /\ UNCHANGED <<coords, concurrency, doneOrder, results, completed>>
    /\ UNCHANGED <<clock, last_request_time, issues>>
    /\ UNCHANGED <<callVars, buildVars, readVars>>

\* A task enters `async with semaphore` and starts fetch_tile.
AcquireTimed(i) ==
    /\ taskPc[i] = "created"
    /\ semaphore > 0
    /\ \A j \in 1..(i - 1) : taskPc[j] /= "created"
    /\ semaphore' = semaphore - 1
    /\ taskPc' = [taskPc EXCEPT ![i] = "rate_wait"]
    /\ UNCHANGED <<coords, concurrency, mainPc, attempt, taskResult,
                   doneOrder, results, completed>>
    /\ UNCHANGED notFetch

\* _rate_limit_wait up to its await: with min_interval elapsed since
\* _last_request_time it returns at once, the time is stored and the first
\* request is sent; otherwise the task sleeps for the rest of the interval.
RateLimitCheck(i) ==
    /\ taskPc[i] = "rate_wait"
    /\ LET elapsed == clock - last_request_time
       IN  IF elapsed < MinInterval
           THEN /\ taskPc' = [taskPc EXCEPT ![i] = "rate_sleep"]
                /\ wakeAt' = [wakeAt EXCEPT ![i] =
                                 clock + (MinInterval - elapsed)]
                /\ UNCHANGED <<last_request_time, issues>>
           ELSE /\ taskPc' = [taskPc EXCEPT ![i] = "request"]
                /\ last_request_time' = clock
                /\ SendRequest(i)
                /\ UNCHANGED wakeAt
    /\ UNCHANGED <<coords, concurrency, mainPc, attempt, taskResult,
                   semaphore, doneOrder, results, completed>>
    /\ UNCHANGED <<clock, outcomes>>
    /\ UNCHANGED <<callVars, buildVars, readVars>>

\* The sleep of _rate_limit_wait is over: the time is stored and the first
\* request is sent.
RateLimitWake(i) ==
    /\ taskPc[i] = "rate_sleep"
    /\ clock >= wakeAt[i]
    /\ taskPc' = [taskPc EXCEPT ![i] = "request"]
    /\ last_request_time' = clock
    /\ SendRequest(i)
    /\ UNCHANGED <<coords, concurrency, mainPc, attempt, taskResult,
                   semaphore, doneOrder, results, completed>>
    /\ UNCHANGED <<clock, wakeAt, outcomes>>
    /\ UNCHANGED <<callVars, buildVars, readVars>>

\* The end of an attempt is logged; a task sent to the backoff sleeps
\* 1.0 * (attempt + 1) seconds.
EndAttempt(i, outcome) ==
    /\ outcomes' = [outcomes EXCEPT ![i] = outcome]
    /\ wakeAt' = IF taskPc'[i] = "backoff"
                 THEN [wakeAt EXCEPT ![i] =
                          clock + TicksPerSecond * (attempt[i] + 1)]
                 ELSE wakeAt

\* A fetch_tile without the `elif response.status == 404` branch: a 404
\* falls to the `else` branch and is retried.
RespondRetryingNotFound(i, outcome) ==
    /\ taskPc[i] = "request"
    /\ outcome \in ServerOutcomes(TaskCoord(i))
    /\ SessionClosed => outcome = "exception"
    /\ IF outcome = "200"
       THEN /\ taskPc' = [taskPc EXCEPT ![i] = "reading"]
            /\ UNCHANGED <<attempt, taskResult, semaphore, doneOrder>>
            /\ UNCHANGED <<outcomes, wakeAt>>
       ELSE IF outcome \in {"401", "403"}
       THEN /\ TaskReturn(i, FetchResult(TaskCoord(i), Nothing, outcome,
                                         "Authentication required"))
            /\ EndAttempt(i, outcome)
       ELSE /\ RetryOrReturn(i, FailureResult(TaskCoord(i), outcome))
            /\ EndAttempt(i, outcome)
    /\ UNCHANGED <<coords, concurrency, mainPc, results, completed>>
    /\ UNCHANGED <<clock, last_request_time, issues>>
    /\ UNCHANGED <<callVars, buildVars, readVars>>

\* The attempt in flight ends (Respond); on a closed session it ends in an
\* exception.
RespondAt(i, outcome) ==
    /\ taskPc[i] = "request"
    /\ outcome \in ServerOutcomes(TaskCoord(i))
    /\ SessionClosed => outcome = "exception"
    /\ IF outcome \in {"timeout", "exception"}
       THEN /\ RetryOrReturn(i, FailureResult(TaskCoord(i), outcome))
            /\ EndAttempt(i, outcome)
       ELSE IF outcome = "200"
       THEN /\ taskPc' = [taskPc EXCEPT ![i] = "reading"]
            /\ UNCHANGED <<attempt, taskResult, semaphore, doneOrder>>
            /\ UNCHANGED <<outcomes, wakeAt>>
       ELSE IF outcome \in {"401", "403"}
       THEN /\ TaskReturn(i, FetchResult(TaskCoord(i), Nothing, outcome,
                                         "Authentication required"))
            /\ EndAttempt(i, outcome)
       ELSE IF outcome = "404"
       THEN /\ TaskReturn(i, FetchResult(TaskCoord(i), Nothing, "404",
                                         "Tile not found"))
            /\ EndAttempt(i, outcome)
       ELSE /\ RetryOrReturn(i, FailureResult(TaskCoord(i), outcome))
            /\ EndAttempt(i, outcome)
    /\ UNCHANGED <<coords, concurrency, mainPc, results, completed>>
    /\ UNCHANGED <<clock, last_request_time, issues>>
    /\ UNCHANGED <<callVars, buildVars, readVars>>

\* `content = await response.read()` (ReadBody)
ReadBodyAt(i, ok) ==
    /\ taskPc[i] = "reading"
    /\ ok \in (IF ServerOutcomes(TaskCoord(i)) = {"200"} /\ ~SessionClosed
               THEN {TRUE} ELSE BOOLEAN)
    /\ IF ok
       THEN /\ TaskReturn(i, FetchResult(TaskCoord(i),
                                         Some(Body(TaskCoord(i))), "200",
                                         None))
            /\ EndAttempt(i, "200")
       ELSE /\ RetryOrReturn(i, FailureResult(TaskCoord(i), "exception"))
            /\ EndAttempt(i, "read error")
    /\ UNCHANGED <<coords, concurrency, mainPc, results, completed>>
    /\ UNCHANGED <<clock, last_request_time, issues>>
    /\ UNCHANGED <<callVars, buildVars, readVars>>

\* The backoff sleep is over: `continue`, and the next request is sent.
BackoffWake(i) ==
    /\ taskPc[i] = "backoff"
    /\ clock >= wakeAt[i]
    /\ taskPc' = [taskPc EXCEPT ![i] = "request"]
    /\ attempt' = [attempt EXCEPT ![i] = attempt[i] + 1]
    /\ SendRequest(i)
    /\ UNCHANGED <<coords, concurrency, mainPc, taskResult, semaphore,
                   doneOrder, results, completed>>
    /\ UNCHANGED <<clock, last_request_time, wakeAt, outcomes>>
    /\ UNCHANGED <<callVars, buildVars, readVars>>

\* Time passes.
Tick ==
    /\ clock < MaxClock
    /\ clock' = clock + 1
    /\ UNCHANGED <<last_request_time, wakeAt, issues, outcomes>>
    /\ UNCHANGED <<fetchVars, callVars, buildVars, readVars>>

\* The caller's deadline passes or the caller cancels: CancelledError is
\* raised at the await fetch_tiles is suspended in, nothing in fetch_tiles
\* catches it, and it leaves the `async with` of the session and the
\* function; the tasks made with create_task are not cancelled with it.
Cancel ==
    /\ mainPc = "gathering"
    /\ mainPc' = "cancelled"
    /\ UNCHANGED <<coords, concurrency, taskPc, attempt, taskResult,
                   semaphore, doneOrder, results, completed>>
    /\ UNCHANGED notFetch

FetchTimedNext ==
    \/ CreateTimedTasks
    \/ \E i \in Tasks : AcquireTimed(i)
    \/ \E i \in Tasks : RateLimitCheck(i)
    \/ \E i \in Tasks : RateLimitWake(i)
    \/ \E i \in Tasks : \E outcome \in AnyOutcome : RespondAt(i, outcome)
    \/ \E i \in Tasks : \E ok \in BOOLEAN : ReadBodyAt(i, ok)
    \/ \E i \in Tasks : BackoffWake(i)
    \/ Tick
    \/ Cancel
    \/ Gather
    \/ ReturnResults

SpecFetchTimed == FetchTimedInit /\ [][FetchTimedNext]_vars


(***************************************************************************)
(*                       Byte strings and gzip                             *)
(*                                                                         *)
(* A byte string is a sequence of numbers.  A gzip stream (RFC 1952) is    *)
(* modelled by its structure: one or more members, each the magic bytes    *)
(* 0x1f 0x8b, a header byte holding the modification time the compressor   *)
(* stamps, the framed payload (its length, then its bytes) and a trailing  *)
(* checksum; zero padding may follow a member.                             *)
(***************************************************************************)
GzipMagic == <<31, 139>>

\* The bytes inputs are made of: the two magic bytes and two others.
ByteSample == {0, 1, 31, 139}
ByteStrings == SeqsUpTo(ByteSample, MaxBytes)

\* The times the clock can show when a stream is compressed.
Clock == {0, 1}

RECURSIVE SumBytes(_)
SumBytes(b) == IF b = <<>> THEN 0 ELSE b[1] + SumBytes(Tail(b))

Checksum(b) == SumBytes(b) % 256

\* gzip.GzipFile(fileobj=buf, mode='wb').write(data): one member, stamped
\* with the current time.
GzipCompress(data, mtime) ==
    GzipMagic \o <<mtime, Len(data)>> \o data \o <<Checksum(data)>>

RECURSIVE LStripZeros(_)
LStripZeros(b) ==
    IF b /= <<>> /\ b[1] = 0 THEN LStripZeros(Tail(b)) ELSE b

GzipFailure == [ok |-> FALSE, data |-> <<>>]

\* gzip.decompress(data): reads member after member until the input ends;
\* raises on a bad magic number, a truncated member or a failed checksum.
RECURSIVE GzipDecompress(_)
GzipDecompress(d) ==
    IF d = <<>> THEN [ok |-> TRUE, data |-> <<>>]
    ELSE IF Len(d) < 2 \/ SubSeq(d, 1, 2) /= GzipMagic THEN GzipFailure
    ELSE IF Len(d) < 4 \/ Len(d) < 5 + d[4] THEN GzipFailure
    ELSE LET n == d[4]
             payload == SubSeq(d, 5, 4 + n)
             rest == GzipDecompress(LStripZeros(SubSeq(d, 6 + n, Len(d))))
         IN  IF d[5 + n] /= Checksum(payload) \/ ~rest.ok THEN GzipFailure
             ELSE [ok |-> TRUE, data |-> payload \o rest.data]

(***************************************************************************)
(*                     PMTilesBuilder._ensure_gzipped                      *)
(***************************************************************************)
\* The same function without the check for data that is gzipped already.
EnsureGzippedAlways(data, now) == GzipCompress(data, now)

\* _ensure_gzipped(data), called when the clock shows `now`.
EnsureGzipped(data, now) ==
    IF /\ Len(data) >= 2
       /\ SubSeq(data, 1, 2) = GzipMagic
       /\ GzipDecompress(data).ok
    THEN data
    ELSE GzipCompress(data, now)

\* Calls of _ensure_gzipped: first on the argument, then on what the call
\* before returned.
EnsureInit ==
    /\ OnlyCall
    /\ fn = "_ensure_gzipped"
    /\ arg \in ByteStrings
    /\ ret = <<>>

EnsureGzippedCall(now) ==
    /\ fn = "_ensure_gzipped"
    /\ Len(ret) < 2
    /\ ret' = Append(ret, EnsureGzipped(IF ret = <<>> THEN arg
                                        ELSE ret[Len(ret)], now))
    /\ UNCHANGED <<fn, arg>>
    /\ UNCHANGED notCall

EnsureNext == \E now \in Clock : EnsureGzippedCall(now)


(***************************************************************************)
(*                    PMTilesReader._zxy_to_tile_id                        *)
(***************************************************************************)
Pow2(n) == 2 ^ n

\* `v & s` for a power of two s: whether that bit of v is set.  Python's
\* integers are two's complement without a width, so for a negative v the
\* bit is that of the floor quotient.
BitSet(v, s) == (v \div s) % 2 = 1

\* A quadrant numbered with `|` in place of `^`.
QuadrantOr(rx, ry) == IF rx = 1 THEN 3 ELSE ry

\* (3 * rx) ^ ry for rx, ry in {0, 1}.
Quadrant(rx, ry) ==
    IF rx = 1 THEN (IF ry = 1 THEN 2 ELSE 3) ELSE ry

\* The while loop: one level of the curve per turn, from s = n // 2 down.
RECURSIVE HilbertLoop(_, _, _, _)
HilbertLoop(s, x, y, d) ==
    IF s <= 0 THEN d
    ELSE LET rx == IF BitSet(x, s) THEN 1 ELSE 0
             ry == IF BitSet(y, s) THEN 1 ELSE 0
             d2 == d + s * s * Quadrant(rx, ry)
             x1 == IF ry = 0 /\ rx = 1 THEN s - 1 - x ELSE x
             y1 == IF ry = 0 /\ rx = 1 THEN s - 1 - y ELSE y
             x2 == IF ry = 0 THEN y1 ELSE x1
             y2 == IF ry = 0 THEN x1 ELSE y1
         IN  HilbertLoop(s \div 2, x2, y2, d2)

\* `for i in range(z): acc += (1 << i) * (1 << i)`
RECURSIVE ZoomOffset(_)
ZoomOffset(z) ==
    IF z <= 0 THEN 0
    ELSE ZoomOffset(z - 1) + Pow2(z - 1) * Pow2(z - 1)

ZxyToTileId(z, x, y) ==
    IF z = 0 THEN 0
    ELSE ZoomOffset(z) + HilbertLoop(Pow2(z) \div 2, x, y, 0)

\* The valid coordinates of a zoom level.
Grid(z) == (0..(Pow2(z) - 1)) \X (0..(Pow2(z) - 1))

TileIdInit ==
    /\ OnlyCall
    /\ fn = "_zxy_to_tile_id"
    /\ arg \in {<<z, xy[1], xy[2]>> : z \in 0..MaxZoom, xy \in Grid(MaxZoom)}
    /\ arg[2] < Pow2(arg[1]) /\ arg[3] < Pow2(arg[1])
    /\ ret = <<>>

ZxyToTileIdCall ==
    /\ fn = "_zxy_to_tile_id"
    /\ ret = <<>>
    /\ ret' = <<ZxyToTileId(arg[1], arg[2], arg[3])>>
    /\ UNCHANGED <<fn, arg>>
    /\ UNCHANGED notCall


(***************************************************************************)
(*                       PMTilesReader._decompress                         *)
(***************************************************************************)
\* Byte strings of every kind the codec tells apart: empty, plain, the magic
\* bytes alone, magic bytes before a broken stream, and gzip streams.
Payloads ==
    {<<>>, <<1>>, <<1, 0>>, GzipMagic, <<31, 139, 0, 1, 1, 0>>,
     GzipCompress(<<>>, 0), GzipCompress(<<1>>, 0), GzipCompress(<<1>>, 1)}

Returned(data) == [kind |-> "return", data |-> data, error |-> None,
                   names |-> {}]
Raised(error, names) == [kind |-> "raise", data |-> <<>>, error |-> error,
                         names |-> names]

\* What brotli.decompress / zstandard.decompress do with the data when the
\* package is installed: they return some decoded bytes or raise their own
\* error.
CodecOutcomes(data) ==
    {Returned(<<>>), Returned(<<1>>), Raised("codec error", {})}

\* _decompress(data, compression), in an environment where the packages
\* named in `installed` can be imported; `decoded` is what an installed
\* codec makes of the data.
Decompress(data, compression, installed, decoded) ==
    IF compression = 0 THEN Returned(data)
    ELSE IF compression = 1
    THEN (IF GzipDecompress(data).ok
          THEN Returned(GzipDecompress(data).data)
          ELSE Returned(data))
    ELSE IF compression = 2
    THEN (IF "brotli" \in installed THEN decoded
          ELSE Raised("ValueError: Brotli compression requires package",
                      {}))
    ELSE IF compression = 3
    THEN (IF "zstandard" \in installed THEN decoded
          ELSE Raised("ValueError: Zstd compression requires package", {}))
    ELSE Returned(data)

DecompressInit ==
    /\ OnlyCall
    /\ fn = "_decompress"
    /\ arg \in [data : Payloads, compression : 0..MaxCode,
                installed : SUBSET {"brotli", "zstandard"}]
    /\ ret = <<>>

DecompressCall(decoded) ==
    /\ fn = "_decompress"
    /\ ret = <<>>
    /\ decoded \in CodecOutcomes(arg.data)
    /\ ret' = <<Decompress(arg.data, arg.compression, arg.installed, decoded)>>
    /\ UNCHANGED <<fn, arg>>
    /\ UNCHANGED notCall

DecompressNext ==
    \E decoded \in CodecOutcomes(arg.data) : DecompressCall(decoded)


(***************************************************************************)
(*                  The archive header and _read_header                    *)
(***************************************************************************)
\* b'PMTiles'
PMTilesMagic == <<80, 77, 84, 105, 108, 101, 115>>

\* Little-endian bytes of an integer (two's complement for a negative one)
\* and back.
RECURSIVE LEBytes(_, _)
LEBytes(v, width) ==
    IF width = 0 THEN <<>> ELSE <<v % 256>> \o LEBytes(v \div 256, width - 1)

RECURSIVE FromLE(_)
FromLE(b) == IF b = <<>> THEN 0 ELSE b[1] + 256 * FromLE(Tail(b))

FromLESigned(b) ==
    IF b[Len(b)] >= 128
    THEN FromLE(SubSeq(b, 1, Len(b) - 1))
            + (b[Len(b)] - 256) * (256 ^ (Len(b) - 1))
    ELSE FromLE(b)

\* struct: the size of a format character and the number of values it
\* yields ('x' is a pad byte and yields none).
StructSize(code) ==
    CASE code = "Q" -> 8 [] code = "i" -> 4 [] code = "B" -> 1
      [] code = "x" -> 1

RECURSIVE CalcSize(_)
CalcSize(fmt) ==
    IF fmt = <<>> THEN 0 ELSE StructSize(fmt[1]) + CalcSize(Tail(fmt))

RECURSIVE UnpackValues(_, _)
UnpackValues(fmt, data) ==
    IF fmt = <<>> THEN <<>>
    ELSE LET n == StructSize(fmt[1])
             field == SubSeq(data, 1, n)
             rest == UnpackValues(Tail(fmt), SubSeq(data, n + 1, Len(data)))
         IN  IF fmt[1] = "x" THEN rest
             ELSE IF fmt[1] = "i" THEN <<FromLESigned(field)>> \o rest
             ELSE <<FromLE(field)>> \o rest

\* struct.unpack('<...', data): the buffer must have exactly the size of the
\* format.
Unpack(fmt, data) ==
    IF Len(data) /= CalcSize(fmt)
    THEN [ok |-> FALSE, values |-> <<>>]
    ELSE [ok |-> TRUE, values |-> UnpackValues(fmt, data)]

Repeat(code, n) == [k \in 1..n |-> code]

\* The layout of the 119 bytes after magic and version: eleven uint64,
\* six uint8, four int32, one uint8, two int32.
HeaderFormatOfLayout ==
    Repeat("Q", 11) \o Repeat("B", 6) \o Repeat("i", 4) \o <<"B">>
       \o Repeat("i", 2)

\* '<QQQQQQQQQQQBBBBBB3xiiiiiBii'
HeaderFormat ==
    Repeat("Q", 11) \o Repeat("B", 6) \o Repeat("x", 3) \o Repeat("i", 5)
       \o <<"B">> \o Repeat("i", 2)

\* The attributes _read_header assigns, in the order of the assignment.
HeaderFields ==
    <<"root_dir_offset", "root_dir_length", "json_metadata_offset",
      "json_metadata_length", "leaf_dirs_offset", "leaf_dirs_length",
      "tile_data_offset", "tile_data_length", "num_addressed_tiles",
      "num_tile_entries", "num_tile_contents", "clustered",
      "internal_compression", "tile_compression", "tile_type", "min_zoom",
      "max_zoom", "min_lon_e7", "min_lat_e7", "max_lon_e7", "max_lat_e7",
      "center_zoom", "center_lon_e7", "center_lat_e7">>

\* serialize_header of the writer: the header of a version 3 archive, 127
\* bytes; h maps each field to its value.
RECURSIVE PackFields(_, _, _)
PackFields(fmt, names, h) ==
    IF fmt = <<>> THEN <<>>
    ELSE LEBytes(h[names[1]], StructSize(fmt[1]))
            \o PackFields(Tail(fmt), Tail(names), h)

SerializeHeader(h) ==
    PMTilesMagic \o <<3>> \o PackFields(HeaderFormatOfLayout, HeaderFields, h)

Opened(h) == [kind |-> "opened", error |-> None, header |-> h]
OpenFailed(error) == [kind |-> "raise", error |-> error, header |-> <<>>]

\* file.read(n) at position pos (0-based) of a file holding `bytes`.
FileRead(bytes, pos, n) ==
    SubSeq(bytes, pos + 1, IF pos + n > Len(bytes) THEN Len(bytes) ELSE pos + n)

\* _read_header on a file with the given bytes.
ReadHeader(bytes) ==
    IF FileRead(bytes, 0, 7) /= PMTilesMagic
    THEN OpenFailed("ValueError: Not a PMTiles file")
    ELSE IF FileRead(bytes, 7, 1) = <<>>
    THEN OpenFailed("struct.error")
    ELSE IF FileRead(bytes, 7, 1)[1] /= 3
    THEN OpenFailed("ValueError: Unsupported PMTiles version")
    ELSE LET u == Unpack(HeaderFormat, FileRead(bytes, 8, 119))
         IN  IF ~u.ok THEN OpenFailed("struct.error")
             ELSE IF Len(u.values) /= Len(HeaderFields)
             THEN OpenFailed("ValueError: too many values to unpack")
             ELSE Opened([k \in 1..Len(HeaderFields) |-> u.values[k]])

\* Headers to open: a one-tile archive header and variations of it.
SampleHeader(tile_type, tile_compression, min_zoom, lon, count) ==
    [name \in {HeaderFields[k] : k \in 1..Len(HeaderFields)} |->
        CASE name = "root_dir_offset" -> 127
          [] name = "root_dir_length" -> 25
          [] name = "json_metadata_offset" -> 152
          [] name = "json_metadata_length" -> 40
          [] name = "leaf_dirs_offset" -> 192
          [] name = "leaf_dirs_length" -> 0
          [] name = "tile_data_offset" -> 192
          [] name = "tile_data_length" -> 300
          [] name = "num_addressed_tiles" -> count
          [] name = "num_tile_entries" -> count
          [] name = "num_tile_contents" -> count
          [] name = "clustered" -> 1
          [] name = "internal_compression" -> 2
          [] name = "tile_compression" -> tile_compression
          [] name = "tile_type" -> tile_type
          [] name = "min_zoom" -> min_zoom
          [] name = "max_zoom" -> min_zoom + 1
          [] name = "min_lon_e7" -> lon
          [] name = "min_lat_e7" -> -3
          [] name = "max_lon_e7" -> lon + 70000
          [] name = "max_lat_e7" -> 300
          [] name = "center_zoom" -> min_zoom
          [] name = "center_lon_e7" -> lon + 35000
          [] name = "center_lat_e7" -> 148]

SampleHeaders ==
    {SampleHeader(tt, tc, mz, lon, n) :
        tt \in {1, 2}, tc \in {1, 2}, mz \in {0, 1}, lon \in {-5, 7},
        n \in {1, 2}}

\* The files to open: a whole archive (header, then further bytes), and the
\* same with a wrong magic number, another version, or cut short.
Damage(bytes, how) ==
    CASE how = "intact" -> bytes \o <<1, 2, 3>>
      [] how = "magic" -> <<81>> \o Tail(bytes)
      [] how = "version" -> SubSeq(bytes, 1, 7) \o <<2>>
                               \o SubSeq(bytes, 9, Len(bytes))
      [] how = "truncated" -> SubSeq(bytes, 1, 100)
      [] how = "stub" -> SubSeq(bytes, 1, 7)

ReadHeaderInit ==
    /\ OnlyCall
    /\ fn = "_read_header"
    /\ arg \in [header : SampleHeaders,
                damage : {"intact", "magic", "version", "truncated", "stub"}]
    /\ ret = <<>>

ReadHeaderCall ==
    /\ fn = "_read_header"
    /\ ret = <<>>
    /\ ret' = <<ReadHeader(Damage(SerializeHeader(arg.header), arg.damage))>>
    /\ UNCHANGED <<fn, arg>>
    /\ UNCHANGED notCall


(***************************************************************************)
(*        The pmtiles Writer that PMTilesBuilder.build() drives            *)
(*  (pmtiles.writer.Writer and pmtiles.tile: write_tile, finalize,         *)
(*   serialize_directory, serialize_header, zxy_to_tileid)                 *)
(***************************************************************************)
Entry(tile_id, offset, length, run_length) ==
    [tile_id |-> tile_id, offset |-> offset, length |-> length,
     run_length |-> run_length]

\* write_varint: seven bits per byte, low bits first, the high bit set on
\* every byte but the last.
RECURSIVE WriteVarint(_)
WriteVarint(v) ==
    IF v >= 128 THEN <<(v % 128) + 128>> \o WriteVarint(v \div 128)
    ELSE <<v>>

RECURSIVE VarintsOf(_)
VarintsOf(values) ==
    IF values = <<>> THEN <<>>
    ELSE WriteVarint(values[1]) \o VarintsOf(Tail(values))

\* serialize_directory before compression: the entry count, then the tile
\* id deltas, the run lengths, the lengths, and the offsets (0 for an entry
\* that starts where the one before ends, else offset + 1).
DirectoryBytes(entries) ==
    LET n == Len(entries)
    IN  WriteVarint(n)
        \o VarintsOf([k \in 1..n |->
              entries[k].tile_id
                 - (IF k = 1 THEN 0 ELSE entries[k - 1].tile_id)])
        \o VarintsOf([k \in 1..n |-> entries[k].run_length])
        \o VarintsOf([k \in 1..n |-> entries[k].length])
        \o VarintsOf([k \in 1..n |->
              IF k > 1 /\ entries[k].offset
                             = entries[k - 1].offset + entries[k - 1].length
              THEN 0 ELSE entries[k].offset + 1])

\* sorted(entries, key=lambda e: e.tile_id): a stable sort.
RECURSIVE InsertEntry(_, _)
InsertEntry(sorted, e) ==
    IF sorted = <<>> THEN <<e>>
    ELSE IF sorted[Len(sorted)].tile_id <= e.tile_id THEN Append(sorted, e)
    ELSE Append(InsertEntry(SubSeq(sorted, 1, Len(sorted) - 1), e),
                sorted[Len(sorted)])

RECURSIVE SortEntries(_)
SortEntries(entries) ==
    IF entries = <<>> THEN <<>>
    ELSE InsertEntry(SortEntries(SubSeq(entries, 1, Len(entries) - 1)),
                     entries[Len(entries)])

\* zxy_to_tileid of the library: the same curve as the reader's, after a
\* check of the coordinate.
TileIdFails(c) == c.z > 31 \/ c.x > Pow2(c.z) - 1 \/ c.y > Pow2(c.z) - 1

NewWriter ==
    [entries |-> <<>>, tile_f |-> <<>>, offset |-> 0, hash_to_offset |-> {},
     addressed |-> 0, clustered |-> TRUE]

\* Writer.write_tile(tileid, data): contents are stored once; a tile that
\* continues the run of the last entry extends it.
WriterWriteTile(w, tileid, data) ==
    LET n == Len(w.entries)
        known == {p \in w.hash_to_offset : p[1] = data}
        found == (CHOOSE p \in known : TRUE)[2]
        clustered == IF n > 0 /\ tileid < w.entries[n].tile_id
                     THEN FALSE ELSE w.clustered
    IN  IF known /= {}
        THEN IF /\ tileid = w.entries[n].tile_id + w.entries[n].run_length
                /\ w.entries[n].offset = found
             THEN [w EXCEPT !.entries[n].run_length = @ + 1,
                            !.addressed = @ + 1,
                            !.clustered = clustered]
             ELSE [w EXCEPT !.entries =
                               Append(@, Entry(tileid, found, Len(data), 1)),
                            !.addressed = @ + 1,
                            !.clustered = clustered]
        ELSE [w EXCEPT !.entries =
                          Append(@, Entry(tileid, w.offset, Len(data), 1)),
                       !.tile_f = @ \o data,
                       !.hash_to_offset = @ \cup {<<data, w.offset>>},
                       !.offset = @ + Len(data),
                       !.addressed = @ + 1,
                       !.clustered = clustered]

\* json.dumps(metadata).encode(): the text is not looked into; "{}" stands
\* for it.
JsonBytes == <<123, 125>>

\* Writer.finalize(header, metadata): the bytes it writes to the output
\* file, in order: header, root directory, metadata, (no leaf directories:
\* the root of a small archive holds every entry), tile data.
FinalizeSections(w, header, now) ==
    LET entries == SortEntries(w.entries)
        root == GzipCompress(DirectoryBytes(entries), now)
        json == GzipCompress(JsonBytes, now)
        h == [name \in {HeaderFields[k] : k \in 1..Len(HeaderFields)} |->
                CASE name = "root_dir_offset" -> 127
                  [] name = "root_dir_length" -> Len(root)
                  [] name = "json_metadata_offset" -> 127 + Len(root)
                  [] name = "json_metadata_length" -> Len(json)
                  [] name = "leaf_dirs_offset" -> 127 + Len(root) + Len(json)
                  [] name = "leaf_dirs_length" -> 0
                  [] name = "tile_data_offset" -> 127 + Len(root) + Len(json)
                  [] name = "tile_data_length" -> w.offset
                  [] name = "num_addressed_tiles" -> w.addressed
                  [] name = "num_tile_entries" -> Len(w.entries)
                  [] name = "num_tile_contents" ->
                        Cardinality(w.hash_to_offset)
                  [] name = "clustered" -> IF w.clustered THEN 1 ELSE 0
                  [] name = "internal_compression" -> 2
                  [] OTHER -> header[name]]
    IN  <<SerializeHeader(h), root, json, w.tile_f>>

(***************************************************************************)
(*                            PMTilesBuilder                               *)
(***************************************************************************)
\* PMTilesMetadata: the fields build() reads.  Bounds are in units of 1e-7
\* degree, the unit of the header.
Metadata(tile_type, format) ==
    [tile_type |-> tile_type, format |-> format, min_zoom |-> 0,
     max_zoom |-> 10, west |-> -1800000000, south |-> -850000000,
     east |-> 1800000000, north |-> 850000000]

MetadataSamples ==
    {Metadata("vector", "mvt"), Metadata("raster", "png"),
     Metadata("raster", "jpg")}

\* The coordinates given to add_tile: the root tile, a deep tile, and one
\* whose x lies outside its zoom level.
BuildCoords == {TileCoord(0, 0, 0), TileCoord(10, 512, 340), TileCoord(1, 2, 0)}

\* The payloads given to add_tile: plain bytes, magic bytes before a broken
\* stream, and a gzip stream.
BuildPayloads == {<<1>>, <<31, 139, 0, 1, 1, 0>>, GzipCompress(<<1>>, 0)}

\* The file that may be at the output path before the build: an archive
\* written earlier.
OldArchive ==
    LET old == FinalizeSections(
                  WriterWriteTile(NewWriter, 0, <<7>>),
                  [tile_type |-> 2, tile_compression |-> 1, min_zoom |-> 0,
                   max_zoom |-> 0, min_lon_e7 |-> 0, min_lat_e7 |-> 0,
                   max_lon_e7 |-> 10, max_lat_e7 |-> 10, center_zoom |-> 0,
                   center_lon_e7 |-> 5, center_lat_e7 |-> 5], 0)
    IN  old[1] \o old[2] \o old[3] \o old[4]

\* Tile type by format: the test of the archive format, not of tile_type.
IsVectorByFormat(md) == md.format = "pbf"

\* `self.metadata.tile_type == "vector"`: the archive holds MVT tiles.
IsVector(md) == md.tile_type = "vector"

\* TileType of the archive: MVT = 1, PNG = 2, JPEG = 3, WEBP = 4.
TileTypeCode(md) ==
    IF IsVector(md) THEN 1
    ELSE CASE md.format = "png" -> 2
           [] md.format \in {"jpg", "jpeg"} -> 3
           [] md.format = "webp" -> 4
           [] OTHER -> 2

\* The header dictionary build() hands to finalize (Compression: NONE = 1,
\* GZIP = 2).
BuildHeader(md) ==
    [tile_type |-> TileTypeCode(md),
     tile_compression |-> IF TileTypeCode(md) = 1 THEN 2 ELSE 1,
     min_zoom |-> md.min_zoom, max_zoom |-> md.max_zoom,
     min_lon_e7 |-> md.west, min_lat_e7 |-> md.south,
     max_lon_e7 |-> md.east, max_lat_e7 |-> md.north,
     center_lon_e7 |-> (md.west + md.east) \div 2,
     center_lat_e7 |-> (md.south + md.north) \div 2,
     center_zoom |-> (md.min_zoom + md.max_zoom) \div 2]

\* The two checks with their order exchanged.
BuildPrecheckMetadataFirst(t, md) ==
    IF md = Nothing THEN "ValueError: Metadata not set"
    ELSE IF t = <<>> THEN "ValueError: No tiles to write"
    ELSE None

\* The checks build() starts with: the error raised, or None.
BuildPrecheck(t, md) ==
    IF t = <<>> THEN "ValueError: No tiles to write"
    ELSE IF md = Nothing THEN "ValueError: Metadata not set"
    ELSE None

BuildInit ==
    /\ CallIdle /\ FetchIdle /\ ReaderIdle
    /\ tiles = <<>>
    /\ metadata = Nothing
    /\ outFile \in {Nothing, Some(OldArchive)}
    /\ buildPc = "idle"
    /\ buildIdx = 0
    /\ writer = Nothing
    /\ handed = <<>>
    /\ lastOp = None
    /\ lastError = None
    /\ readBack = Nothing

\* add_tile(coord, data)
AddTile(coord, data) ==
    /\ buildPc = "idle"
    /\ Len(tiles) < MaxTiles
    /\ tiles' = Append(tiles, [coord |-> coord, data |-> data])
    /\ lastOp' = "add_tile"
    /\ lastError' = None
    /\ UNCHANGED <<metadata, outFile, buildPc, buildIdx, writer, handed,
                   readBack>>
    /\ UNCHANGED notBuild

\* set_metadata(metadata)
SetMetadata(md) ==
    /\ buildPc = "idle"
    /\ metadata' = Some(md)
    /\ lastOp' = "set_metadata"
    /\ lastError' = None
    /\ UNCHANGED <<tiles, outFile, buildPc, buildIdx, writer, handed,
                   readBack>>
    /\ UNCHANGED notBuild

\* build() up to the write loop: the checks, then open(output_path, 'wb'),
\* which creates or empties the file, or fails and leaves it alone.
BuildStart(openFails) ==
    /\ buildPc = "idle"
    /\ lastOp' = "build"
    /\ IF BuildPrecheck(tiles, metadata) /= None
       THEN /\ lastError' = BuildPrecheck(tiles, metadata)
            /\ UNCHANGED <<outFile, buildPc, buildIdx, writer, handed>>
       ELSE IF openFails
       THEN /\ lastError' = "OSError"
            /\ UNCHANGED <<outFile, buildPc, buildIdx, writer, handed>>
       ELSE /\ lastError' = None
            /\ outFile' = Some(<<>>)
            /\ buildPc' = "writing"
            /\ buildIdx' = 1
            /\ writer' = Some(NewWriter)
            /\ handed' = <<>>
    /\ UNCHANGED <<tiles, metadata, readBack>>
    /\ UNCHANGED notBuild

\* One turn of `for coord, data in self.tiles`: the payload of a vector
\* archive goes through _ensure_gzipped, the tile id is computed (which
\* raises for a coordinate outside its zoom level) and the tile is handed to
\* the writer (whose write to its temporary file may fail).  An exception
\* leaves build(); the `with` closes the output file.
BuildWriteTile(now, writeFails) ==
    /\ buildPc = "writing"
    /\ buildIdx <= Len(tiles)
    /\ LET coord == tiles[buildIdx].coord
           data == IF IsVector(metadata[1])
                   THEN EnsureGzipped(tiles[buildIdx].data, now)
                   ELSE tiles[buildIdx].data
       IN  IF TileIdFails(coord)
           THEN /\ buildPc' = "failed"
                /\ lastError' = "ValueError: tile x/y outside zoom level"
                /\ UNCHANGED <<buildIdx, writer, handed>>
           ELSE IF writeFails
           THEN /\ buildPc' = "failed"
                /\ lastError' = "OSError"
                /\ UNCHANGED <<buildIdx, writer, handed>>
           ELSE /\ writer' = Some(WriterWriteTile(writer[1],
                                   ZxyToTileId(coord.z, coord.x, coord.y),
                                   data))
                /\ handed' = Append(handed,
                      [tile_id |-> ZxyToTileId(coord.z, coord.x, coord.y),
                       data |-> data])
                /\ buildIdx' = buildIdx + 1
                /\ UNCHANGED <<buildPc, lastError>>
    /\ UNCHANGED <<tiles, metadata, outFile, lastOp, readBack>>
    /\ UNCHANGED notBuild

\* writer.finalize(header, json_metadata): the sections are written to the
\* output file one after the other; a failing write leaves the sections
\* written before it (`sections` of them) in the file.
BuildFinalize(now, sections) ==
    /\ buildPc = "writing"
    /\ buildIdx > Len(tiles)
    /\ LET parts == FinalizeSections(writer[1], BuildHeader(metadata[1]), now)
       IN  IF sections = Len(parts)
           THEN /\ outFile' = Some(parts[1] \o parts[2] \o parts[3]
                                      \o parts[4])
                /\ buildPc' = "done"
                /\ UNCHANGED lastError
           ELSE /\ outFile' = Some(IF sections = 0 THEN <<>> ELSE parts[1])
                /\ buildPc' = "failed"
                /\ lastError' = "OSError"
    /\ UNCHANGED <<tiles, metadata, buildIdx, writer, handed, lastOp,
                   readBack>>
    /\ UNCHANGED notBuild


(***************************************************************************)
(*     PMTilesReader: _read_varint, _read_directory, _find_tile, get_tile  *)
(***************************************************************************)
\* The attribute of an opened reader that holds the named header field.
Field(h, name) ==
    h[CHOOSE k \in 1..Len(HeaderFields) : HeaderFields[k] = name]

\* _read_varint(data, pos): pos counts from 0; the loop ends at the first
\* byte without the high bit or at the end of the data.
RECURSIVE ReadVarintFrom(_, _, _, _)
ReadVarintFrom(data, pos, result, scale) ==
    IF pos >= Len(data) THEN [value |-> result, pos |-> pos]
    ELSE LET byte == data[pos + 1]
             r == result + (byte % 128) * scale
         IN  IF byte < 128 THEN [value |-> r, pos |-> pos + 1]
             ELSE ReadVarintFrom(data, pos + 1, r, scale * 128)

ReadVarint(data, pos) == ReadVarintFrom(data, pos, 0, 1)

\* `for _ in range(n): v, pos = self._read_varint(data, pos)`; once the
\* data are used up every further call returns (0, pos).
ReadVarints(data, pos, n) ==
    LET read[p \in Nat, m \in Int] ==
            IF m <= 0 THEN [values |-> <<>>, pos |-> p]
            ELSE IF p >= Len(data)
            THEN [values |-> [k \in 1..m |-> 0], pos |-> p]
            ELSE LET v == ReadVarint(data, p)
                     rest == read[v.pos, m - 1]
                 IN  [values |-> <<v.value>> \o rest.values,
                      pos |-> rest.pos]
    IN  read[pos, n]

\* The deltas taken for the tile ids themselves.
AccumulateNothing(deltas, acc) == deltas

\* Running sums: `tile_id += delta; tile_ids.append(tile_id)`; over
\* deltas that are all 0 the sum stays.
RECURSIVE Accumulate(_, _)
Accumulate(deltas, acc) ==
    IF deltas = <<>> THEN <<>>
    ELSE IF \A k \in 1..Len(deltas) : deltas[k] = 0
    THEN [k \in 1..Len(deltas) |-> acc]
    ELSE <<acc + deltas[1]>> \o Accumulate(Tail(deltas), acc + deltas[1])

\* The loop over the offsets: an entry of length 0 takes the running offset
\* and reads nothing; any other adds the next varint to the running offset
\* (0 once the data are used up).
ReadOffsets(data, pos, lengths, offset_acc) ==
    LET read[p \in Nat, k \in Nat, acc \in Int] ==
            IF k > Len(lengths) THEN <<>>
            ELSE IF p >= Len(data) THEN [j \in 1..(Len(lengths) - k + 1) |-> acc]
            ELSE IF lengths[k] = 0 THEN <<acc>> \o read[p, k + 1, acc]
            ELSE LET v == ReadVarint(data, p)
                 IN  <<acc + v.value>> \o read[v.pos, k + 1, acc + v.value]
    IN  read[pos, 1, offset_acc]

DirEntry(type, tile_id, run_length, offset, length) ==
    [type |-> type, tile_id |-> tile_id, run_length |-> run_length,
     offset |-> offset, length |-> length]

\* The entries _read_directory parses out of decompressed directory bytes.
ParseDirectory(data) ==
    LET num == ReadVarint(data, 0)
        n == num.value
        ids == ReadVarints(data, num.pos, n)
        runs == ReadVarints(data, ids.pos, n)
        lens == ReadVarints(data, runs.pos, n)
        tile_ids == Accumulate(ids.values, 0)
        offsets == ReadOffsets(data, lens.pos, lens.values, 0)
    IN  [k \in 1..n |->
            DirEntry(IF runs.values[k] = 0 THEN "leaf" ELSE "tile",
                     tile_ids[k], runs.values[k], offsets[k],
                     lens.values[k])]

\* _read_directory(offset, length) of a reader with header h on a file with
\* the given bytes.  (The cache holds what an earlier call on the same file
\* returned, so it does not change the result.)
ReadDirectory(bytes, h, offset, length, installed, decoded) ==
    LET d == Decompress(FileRead(bytes, offset, length),
                        Field(h, "internal_compression"), installed, decoded)
    IN  IF d.kind = "raise"
        THEN [kind |-> "raise", error |-> d.error, entries |-> <<>>]
        ELSE [kind |-> "return", error |-> None,
              entries |-> ParseDirectory(d.data)]

Found(offset, length) ==
    [kind |-> "found", offset |-> offset, length |-> length, error |-> None]
NotFound == [kind |-> "none", offset |-> 0, length |-> 0, error |-> None]
FindRaised(error) ==
    [kind |-> "raise", offset |-> 0, length |-> 0, error |-> error]

\* _find_tile(tile_id, entries, depth): the entries are tried in order from
\* the k-th on; a leaf entry at or before the tile id is read and searched,
\* and the search goes on after it if it does not hold the tile.
RECURSIVE FindTileFrom(_, _, _, _, _, _, _, _)
FindTileFrom(bytes, h, tile_id, entries, k, depth, installed, decoded) ==
    IF depth > 10 \/ k > Len(entries) THEN NotFound
    ELSE LET entry == entries[k]
             next == FindTileFrom(bytes, h, tile_id, entries, k + 1, depth,
                                  installed, decoded)
         IN  IF entry.type = "tile"
             THEN IF /\ entry.tile_id <= tile_id
                     /\ tile_id < entry.tile_id + entry.run_length
                  THEN Found(entry.offset, entry.length)
                  ELSE next
             ELSE IF entry.tile_id <= tile_id
             THEN LET leaf == ReadDirectory(bytes, h,
                                 Field(h, "leaf_dirs_offset") + entry.offset,
                                 entry.length, installed, decoded)
                      inner == FindTileFrom(bytes, h, tile_id, leaf.entries,
                                            1, depth + 1, installed, decoded)
                  IN  IF leaf.kind = "raise" THEN FindRaised(leaf.error)
                      ELSE IF inner.kind /= "none" THEN inner
                      ELSE next
             ELSE next

FindTile(bytes, h, tile_id, entries, installed, decoded) ==
    FindTileFrom(bytes, h, tile_id, entries, 1, 0, installed, decoded)

TileReturned(data) == [kind |-> "return", data |-> data, error |-> None]
TileRaised(error) == [kind |-> "raise", data |-> Nothing, error |-> error]

\* get_tile(z, x, y): Some(bytes), or Nothing for None.
GetTile(bytes, h, c, installed, decoded) ==
    LET root == ReadDirectory(bytes, h, Field(h, "root_dir_offset"),
                              Field(h, "root_dir_length"), installed, decoded)
        hit == FindTile(bytes, h, ZxyToTileId(c.z, c.x, c.y), root.entries,
                        installed, decoded)
    IN  IF root.kind = "raise" THEN TileRaised(root.error)
        ELSE IF hit.kind = "raise" THEN TileRaised(hit.error)
        ELSE IF hit.kind = "none" THEN TileReturned(Nothing)
        ELSE TileReturned(Some(FileRead(bytes,
                              Field(h, "tile_data_offset") + hit.offset,
                              hit.length)))

\* PMTilesReader(path).get_tile(z, x, y) on whatever is at the path.
OpenAndGetTile(file, c, installed, decoded) ==
    IF file = Nothing THEN TileRaised("FileNotFoundError")
    ELSE LET opened == ReadHeader(file[1])
         IN  IF opened.kind = "raise" THEN TileRaised(opened.error)
             ELSE GetTile(file[1], opened.header, c, installed, decoded)

\* The coordinates asked of the reader: those a build may have written and
\* the neighbour of one of them.
ReadCoords ==
    {c \in BuildCoords : ~TileIdFails(c)} \cup {TileCoord(10, 512, 341)}

\* The reader is opened on the output path after build() has returned or
\* raised, and asked for one tile.
ReadBack(c, installed, decoded) ==
    /\ buildPc \in {"done", "failed"}
    /\ readBack' = Some([coord |-> c,
                         result |-> OpenAndGetTile(outFile, c, installed,
                                                   decoded)])
    /\ UNCHANGED <<tiles, metadata, outFile, buildPc, buildIdx, writer,
                   handed, lastOp, lastError>>
    /\ UNCHANGED notBuild

BuildNext ==
    \/ \E c \in BuildCoords, data \in BuildPayloads : AddTile(c, data)
    \/ \E md \in MetadataSamples : SetMetadata(md)
    \/ \E openFails \in BOOLEAN : BuildStart(openFails)
    \/ \E now \in Clock, writeFails \in BOOLEAN : BuildWriteTile(now, writeFails)
    \/ \E now \in Clock, sections \in {0, 1, 4} : BuildFinalize(now, sections)
    \/ \E c \in ReadCoords, installed \in SUBSET {"brotli"},
          decoded \in CodecOutcomes(<<>>) : ReadBack(c, installed, decoded)

SpecBuild == BuildInit /\ [][BuildNext]_vars

(***************************************************************************)
(* Claims about TileFetcher.                                               *)
(***************************************************************************)
\* How often coordinate c is requested, and how often it has a result.
Requested(c) == CountIn(coords, LAMBDA t : t = c)
Answered(c) == CountIn(results, LAMBDA r : r.coord = c)

\* C1: whatever each attempt ends in (200, 401/403, 404, another status, a
\* timeout, an exception), fetch_tiles never raises, never stops before it
\* has returned, and returns exactly N results: one for each requested
\* coordinate.
C1_OneResultPerCoord ==
    /\ mainPc /= "raised"
    /\ \A i \in Tasks : taskPc[i] /= "raised"
    /\ mainPc /= "returned" => ENABLED FetchNext
    /\ mainPc = "returned" =>
          /\ Len(results) = Len(coords)
          /\ \A c \in FetchCoords : Answered(c) = Requested(c)

\* C1 witness: fetch_tiles has returned for a full list of coordinates, one
\* of whose fetches ended without a response after the retries and another
\* with a served tile.
C1_Witness ==
    /\ mainPc = "returned"
    /\ Len(coords) = MaxCoords
    /\ \E k \in 1..Len(results) : results[k].status = None
    /\ \E k \in 1..Len(results) : Success(results[k])

\* The coordinates whose server answers in one fixed way.
FixedSubsets ==
    \A i \in 1..Len(coords) : coords[i] \in {tServed, tAbsent, tProtected}

\* C2: with the coordinates split into fixed 404, 401/403 and 200 subsets,
\* in every interleaving and completion order the result has as many 404
\* results as the 404 subset, as many 401/403 results as the auth subset,
\* and for every coordinate of the 200 subset successful results carrying
\* the body served for that coordinate.
C2_PartialFailureCounts ==
    (mainPc = "returned" /\ FixedSubsets) =>
       /\ CountIn(results, LAMBDA r : r.status = "404")
             = CountIn(coords, LAMBDA t : t = tAbsent)
       /\ CountIn(results, LAMBDA r : r.status \in {"401", "403"})
             = CountIn(coords, LAMBDA t : t = tProtected)
       /\ \A i \in 1..Len(coords) :
             coords[i] = tServed =>
                /\ \E k \in 1..Len(results) : results[k].coord = coords[i]
                /\ \A k \in 1..Len(results) :
                      results[k].coord = coords[i] =>
                         /\ Success(results[k])
                         /\ results[k].content = Some(Body(coords[i]))

\* C2 witness: a returned run over a 404 tile and a served tile in which the
\* tile requested second completed first.
C2_Witness ==
    /\ mainPc = "returned"
    /\ FixedSubsets
    /\ Len(coords) >= 2
    /\ \E i \in 1..Len(coords) : coords[i] = tAbsent
    /\ \E i \in 1..Len(coords) : coords[i] = tServed
    /\ doneOrder[1] > doneOrder[2]

\* The tasks that are inside fetch_tile: waiting for a rate-limit slot,
\* awaiting a response or its body, or sleeping in the retry backoff.
InFetchTile ==
    {i \in Tasks :
        taskPc[i] \in {"rate_wait", "rate_sleep", "request", "reading",
                       "backoff"}}

\* C15: a task sends its next request only after an attempt that ended in
\* another status than 200, 404, 401, 403, in a timeout or in an exception;
\* after a 200 or a permanent status it is done; it never makes more than
\* max_retries + 1 attempts.
C15_RetryOnlyTransient ==
    /\ [](\A i \in DOMAIN outcomes :
             /\ attempt[i] + 1 <= max_retries + 1
             /\ outcomes[i] \in Delivered \cup Permanent =>
                   taskPc[i] = "done")
    /\ [][\A i \in DOMAIN attempt \cap DOMAIN attempt' :
             attempt'[i] /= attempt[i] =>
                /\ attempt'[i] = attempt[i] + 1
                /\ outcomes[i] \in Transient]_vars

\* C15 witness: a task whose first attempt ended in a retried outcome and
\* whose second ended in 404 is done after two attempts, and another made
\* its last permitted attempt.
C15_Witness ==
    /\ \E i \in DOMAIN outcomes :
          attempt[i] = 1 /\ outcomes[i] = "404" /\ taskPc[i] = "done"
    /\ \E i \in DOMAIN outcomes :
          attempt[i] = max_retries /\ outcomes[i] \in Transient
             /\ taskPc[i] = "done"

\* C28: fetch_tiles comes to its end: every task completes, every permit
\* of the semaphore is given back, and fetch_tiles returns.
C28_FetchTilesTerminates ==
    <>(/\ mainPc = "returned"
       /\ \A i \in Tasks : taskPc[i] = "done"
       /\ Len(taskPc) = Len(coords)
       /\ semaphore = concurrency)

\* C28 witness: fetch_tiles has returned after a task used up its retries
\* while the other waited for the only permit.
C28_Witness ==
    /\ mainPc = "returned"
    /\ Len(coords) = 2 /\ concurrency = 1
    /\ \E i \in Tasks : attempt[i] = max_retries
    /\ semaphore = concurrency

\* C16: at every moment the number of tasks inside fetch_tile is at most
\* the concurrency parameter.
C16_BoundedConcurrency == Cardinality(InFetchTile) <= concurrency

\* C16 witness: as many tasks as the concurrency allows are inside
\* fetch_tile, one of them in its backoff sleep, and a further task waits
\* for the semaphore.
C16_Witness ==
    /\ Cardinality(InFetchTile) = concurrency
    /\ \E i \in Tasks : taskPc[i] = "backoff"
    /\ \E i \in Tasks : taskPc[i] = "created"

\* C17: any two requests sent by the tasks of one TileFetcher, first
\* attempts and retries alike, are at least min_interval (1 / rate_limit)
\* apart.
C17_RequestsSpaced == issues.closest >= MinInterval

\* What the caller of fetch_tiles has received.
CallerReceives == IF mainPc = "returned" THEN Some(results) ELSE Nothing

\* C18: when fetch_tiles is cancelled, the caller receives the results
\* gathered up to then.
C18_CancelKeepsResults ==
    mainPc = "cancelled" => CallerReceives = Some(results)

(***************************************************************************)
(* Claims about PMTilesBuilder._ensure_gzipped.                            *)
(***************************************************************************)
SpecEnsureGzipped == EnsureInit /\ [][EnsureNext]_vars

\* A gzip stream by its format: a member (magic, time, framed payload,
\* matching checksum) followed by nothing, by zero padding, or by zero
\* padding and another stream.
IsMember(d) ==
    /\ Len(d) >= 5
    /\ d[1] = 31 /\ d[2] = 139
    /\ Len(d) = 5 + d[4]
    /\ d[Len(d)] = Checksum(SubSeq(d, 5, Len(d) - 1))

RECURSIVE IsGzipStream(_)
IsGzipStream(d) ==
    \E k \in 5..Len(d) :
        /\ IsMember(SubSeq(d, 1, k))
        /\ \E j \in k..Len(d) :
              /\ \A q \in (k + 1)..j : d[q] = 0
              /\ j = Len(d) \/ IsGzipStream(SubSeq(d, j + 1, Len(d)))

\* C5: _ensure_gzipped is idempotent: applied to its own result it returns
\* that result unchanged, for every input (empty, magic bytes without a
\* valid stream behind them, valid gzip) and whatever the clock shows.
C5_Idempotent == Len(ret) = 2 => ret[2] = ret[1]

\* C5 witness: the function has been applied twice to an input that starts
\* with the magic bytes but is no valid gzip stream.
C5_Witness ==
    /\ fn = "_ensure_gzipped"
    /\ Len(ret) = 2
    /\ Len(arg) >= 2 /\ SubSeq(arg, 1, 2) = GzipMagic
    /\ ~IsGzipStream(arg)

(***************************************************************************)
(* Claims about PMTilesReader._zxy_to_tile_id.                             *)
(***************************************************************************)
SpecTileId == TileIdInit /\ [][ZxyToTileIdCall]_vars

\* base(z): the sum of 4^i for i < z, and the ids of zoom z.
RECURSIVE BaseOfZoom(_)
BaseOfZoom(z) == IF z = 0 THEN 0 ELSE BaseOfZoom(z - 1) + 4 ^ (z - 1)

IdsOfZoom(z) == BaseOfZoom(z)..(BaseOfZoom(z) + 4 ^ z - 1)

\* C10: at every zoom z, _zxy_to_tile_id maps the valid coordinates one to
\* one onto [base(z), base(z) + 4^z): the id of a coordinate lies in the
\* interval, no other coordinate of the zoom has it, every id of the
\* interval is taken, and it is smaller than every id of zoom z + 1.
C10_TileIdBijection ==
    (fn = "_zxy_to_tile_id" /\ ret /= <<>>) =>
       LET z == arg[1]
           id == ret[1]
       IN  /\ id \in IdsOfZoom(z)
           /\ \A xy \in Grid(z) :
                 ZxyToTileId(z, xy[1], xy[2]) = id => xy = <<arg[2], arg[3]>>
           /\ {ZxyToTileId(z, xy[1], xy[2]) : xy \in Grid(z)} = IdsOfZoom(z)
           /\ \A xy \in Grid(z + 1) : id < ZxyToTileId(z + 1, xy[1], xy[2])

\* C10 witness: the id of a coordinate of the deepest zoom whose path on the
\* curve goes through a rotated quadrant has been computed.
C10_Witness ==
    /\ fn = "_zxy_to_tile_id"
    /\ ret /= <<>>
    /\ arg[1] = MaxZoom
    /\ arg[2] = Pow2(MaxZoom) - 1
    /\ arg[3] = 0

(***************************************************************************)
(* Claims about PMTilesReader._decompress.                                 *)
(***************************************************************************)
SpecDecompress == DecompressInit /\ [][DecompressNext]_vars

\* The codes _decompress treats as "none" and as "gzip".
CodesHandled == {0, 1}

\* C9: asked to decompress data whose compression code it does not support
\* (any code other than none and gzip), the decoder fails with an
\* unsupported-compression error that names the code; it never returns the
\* bytes it was given.
C9_UnsupportedCompressionFails ==
    (fn = "_decompress" /\ ret /= <<>> /\ arg.compression \notin CodesHandled)
       => /\ ret[1].kind = "raise"
          /\ ret[1].error = "UnsupportedCompressionError"
          /\ ret[1].names = {arg.compression}

(***************************************************************************)
(* Claims about PMTilesReader._read_header.                                *)
(***************************************************************************)
SpecReadHeader == ReadHeaderInit /\ [][ReadHeaderCall]_vars

\* The file the call was given, and whether it is a version 3 archive with
\* a whole header.
FileGiven == Damage(SerializeHeader(arg.header), arg.damage)

WellFormedHeader(bytes) ==
    /\ Len(bytes) >= 127
    /\ SubSeq(bytes, 1, 7) = PMTilesMagic
    /\ bytes[8] = 3

\* C8: opening succeeds exactly on files with the magic 'PMTiles', version 3
\* and the 119 byte header body; every header field then holds the value
\* stored at its position in the layout; a magic or version mismatch fails
\* with a format error.
C8_HeaderParsed ==
    (fn = "_read_header" /\ ret /= <<>>) =>
       /\ (ret[1].kind = "opened") <=> WellFormedHeader(FileGiven)
       /\ ret[1].kind = "opened" =>
             \A k \in 1..Len(HeaderFields) :
                ret[1].header[k] = arg.header[HeaderFields[k]]
       /\ arg.damage \in {"magic", "version"} =>
             /\ ret[1].kind = "raise"
             /\ ret[1].error \in {"ValueError: Not a PMTiles file",
                                  "ValueError: Unsupported PMTiles version"}

(***************************************************************************)
(* Claims about PMTilesBuilder and the round trip through PMTilesReader.   *)
(***************************************************************************)
\* A whole archive: the header of the layout, followed by exactly the
\* sections the header announces.
WholeArchive(bytes) ==
    /\ WellFormedHeader(bytes)
    /\ LET v == UnpackValues(HeaderFormatOfLayout, SubSeq(bytes, 9, 127))
       IN  /\ v[1] = 127
           /\ v[3] = v[1] + v[2]
           /\ v[5] = v[3] + v[4]
           /\ v[7] = v[5] + v[6]
           /\ Len(bytes) = v[7] + v[8]

\* No coordinate was added twice.
DistinctCoords ==
    \A j, k \in 1..Len(tiles) : tiles[j].coord = tiles[k].coord => j = k

\* C3: after a build that succeeded, the reader opened on the output file
\* returns for a written coordinate exactly the bytes added for it, and
\* None for a valid coordinate that was not written.
C3_RoundTrip ==
    (buildPc = "done" /\ readBack /= Nothing /\ DistinctCoords) =>
       LET c == readBack[1].coord
           written == {k \in 1..Len(tiles) : tiles[k].coord = c}
       IN  readBack[1].result =
              IF written = {} THEN TileReturned(Nothing)
              ELSE TileReturned(Some(tiles[CHOOSE k \in written : TRUE].data))

\* C4: in a vector archive the bytes handed to the writer for a payload p
\* are p when p is a valid gzip stream and one gzip compression of p
\* otherwise, and every payload the writer stores is a valid gzip stream.
C4_GzippedExactlyOnce ==
    (metadata /= Nothing /\ metadata[1].tile_type = "vector") =>
       /\ \A k \in 1..Len(handed) :
             LET p == tiles[k].data
                 given == handed[k].data
             IN  /\ IsGzipStream(p) => given = p
                 /\ ~IsGzipStream(p) =>
                       \E now \in Clock : given = GzipCompress(p, now)
                 /\ IsGzipStream(given)
       /\ writer /= Nothing =>
             \A stored \in writer[1].hash_to_offset : IsGzipStream(stored[1])

\* C4 witness: a vector archive was built from a payload that was a gzip
\* stream already and one that was not.
C4_Witness ==
    /\ buildPc = "done"
    /\ metadata[1].tile_type = "vector"
    /\ Len(handed) = Len(tiles)
    /\ \E j, k \in 1..Len(tiles) :
          IsGzipStream(tiles[j].data) /\ ~IsGzipStream(tiles[k].data)

\* C6: after build() has raised, the output path holds no file or a whole
\* archive, never part of one.
C6_NoPartialFile ==
    (lastOp = "build" /\ lastError /= None) =>
       outFile = Nothing \/ WholeArchive(outFile[1])

\* C7: build() with no tiles raises the empty-archive error, build() with
\* tiles but no metadata raises the missing-metadata error, and either
\* leaves the output path, the tiles and the metadata as they were.
C7_FailedChecksChangeNothing ==
    [][(buildPc = "idle" /\ lastOp' = "build"
          /\ (tiles = <<>> \/ metadata = Nothing)) =>
         /\ lastError' = IF tiles = <<>>
                         THEN "ValueError: No tiles to write"
                         ELSE "ValueError: Metadata not set"
         /\ outFile' = outFile
         /\ tiles' = tiles
         /\ metadata' = metadata
         /\ buildPc' = "idle"]_vars

\* C7 witness: build() has raised the empty-archive error although metadata
\* was set, with an archive of an earlier build at the output path.
C7_Witness ==
    /\ lastOp = "build"
    /\ lastError = "ValueError: No tiles to write"
    /\ metadata /= Nothing
    /\ outFile = Some(OldArchive)

(***************************************************************************)
(*                      TileMath and CoverageAnalyzer                      *)
(*                                                                         *)
(* Longitudes are held in units of 1/LonScale degree.  A latitude is held  *)
(* as its Web Mercator position (1 - asinh(tan(lat)) / pi) / 2, the value  *)
(* lat_to_tile_y computes from it, in units of 1/MercScale: 0 at the north *)
(* edge of the grid, MercScale at its south edge, beyond them outside.     *)
(***************************************************************************)
LonScale == 2 ^ 6
MercScale == 2 ^ 16

\* int(): truncation toward zero of the quotient a / b, b > 0.
Trunc(a, b) == IF a >= 0 THEN a \div b ELSE -((-a) \div b)

\* The Mercator position of a latitude given in whole degrees.
LatOfDegrees(deg) ==
    CASE deg = 90 -> -363847
      [] deg = 85 -> 107
      [] deg = 60 -> 19032
      [] deg = 0 -> 32768
      [] deg = -60 -> 46504
      [] deg = -85 -> 65429
      [] deg = -86 -> 67758
      [] deg = -90 -> 429383

LonOfDegrees(deg) == deg * LonScale

\* lon_to_tile_x(lon, zoom)
LonToTileX(lon, zoom) ==
    Trunc((lon + 180 * LonScale) * Pow2(zoom), 360 * LonScale)

\* lat_to_tile_y(lat, zoom)
LatToTileY(lat, zoom) == Trunc(lat * Pow2(zoom), MercScale)

\* tile_to_lon(x, zoom): every step of x / 2^zoom * 360 - 180 is exact.
TileToLon(x, zoom) == (x * 360 * LonScale) \div Pow2(zoom) - 180 * LonScale

\* tile_to_lat(y, zoom): the latitude of the north edge of row y, as far as
\* atan, sinh and degrees deliver it: the float returned lies at the edge or
\* next to it on either side (`rounding` in units of 1/MercScale).
TileToLat(y, zoom, rounding) == (y * MercScale) \div Pow2(zoom) + rounding

Roundings == {-1, 0, 1}

GeoBounds(west, south, east, north) ==
    [west |-> west, south |-> south, east |-> east, north |-> north]

\* The ranges of tile indices the two functions compute from the corners.
TileRange(bounds, zoom) ==
    [min_x |-> LonToTileX(bounds.west, zoom),
     max_x |-> LonToTileX(bounds.east, zoom),
     min_y |-> LatToTileY(bounds.north, zoom),
     max_y |-> LatToTileY(bounds.south, zoom)]

\* tiles_for_bounds(bounds, zoom): the tiles in the order they are yielded,
\* x in the outer loop and y in the inner one, after the clamp to the grid.
TilesForBounds(bounds, zoom) ==
    LET r == TileRange(bounds, zoom)
        max_tile == Pow2(zoom) - 1
        min_x == Max(0, r.min_x)
        max_x == Min(max_tile, r.max_x)
        min_y == Max(0, r.min_y)
        max_y == Min(max_tile, r.max_y)
        width == Max(0, max_x - min_x + 1)
        height == Max(0, max_y - min_y + 1)
    IN  [k \in 1..(width * height) |->
            TileCoord(zoom, min_x + ((k - 1) \div height),
                      min_y + ((k - 1) % height))]

\* count_tiles_for_bounds(bounds, zoom)
CountTilesForBounds(bounds, zoom) ==
    LET r == TileRange(bounds, zoom)
    IN  (r.max_x - r.min_x + 1) * (r.max_y - r.min_y + 1)

\* The bounds given to the functions: corners inside the grid, on its edges
\* (east = 180) and beyond the Mercator limit (latitude 90 and -90).
BoundsSamples ==
    {GeoBounds(LonOfDegrees(w), LatOfDegrees(s), LonOfDegrees(e),
               LatOfDegrees(n)) :
        w \in {-180, -45, 10}, e \in {10, 90, 180},
        s \in {-90, -60, 0}, n \in {0, 60, 85, 90}}

Range(s) == {s[k] : k \in 1..Len(s)}

\* sorted(tiles, key=lambda t: (t.z, t.x, t.y))
KeyLess(a, b) ==
    \/ a.z < b.z
    \/ a.z = b.z /\ a.x < b.x
    \/ a.z = b.z /\ a.x = b.x /\ a.y < b.y

\* The tiles in the order a set happens to iterate them.
RECURSIVE SortedByYThenX(_)
SortedByYThenX(S) ==
    IF S = {} THEN <<>>
    ELSE LET first == CHOOSE a \in S :
                         \A b \in S \ {a} :
                            a.y < b.y \/ (a.y = b.y /\ a.x < b.x)
         IN  <<first>> \o SortedByYThenX(S \ {first})

RECURSIVE SortedByKey(_)
SortedByKey(S) ==
    IF S = {} THEN <<>>
    ELSE LET first == CHOOSE a \in S : \A b \in S \ {a} : KeyLess(a, b)
         IN  <<first>> \o SortedByKey(S \ {first})

\* find_missing_tiles(captured_tiles, zoom_levels): the dictionary returned,
\* a function from the zoom levels with missing tiles to their lists.  The
\* captured set is given as the sequence in which it is iterated.
MissingAtZoom(bounds, captured, zoom) ==
    Range(TilesForBounds(bounds, zoom))
       \ {captured[k] : k \in {j \in 1..Len(captured) : captured[j].z = zoom}}

FindMissingTiles(bounds, captured, zoom_levels) ==
    [zoom \in {z \in Range(zoom_levels) :
                  MissingAtZoom(bounds, captured, z) /= {}} |->
        SortedByKey(MissingAtZoom(bounds, captured, zoom))]

\* The bounds of the analyzer, the captured tiles and the zoom levels given
\* to find_missing_tiles.
CoverageBounds ==
    {GeoBounds(LonOfDegrees(-180), LatOfDegrees(-90), LonOfDegrees(-45),
               LatOfDegrees(-60)),
     GeoBounds(LonOfDegrees(-45), LatOfDegrees(0), LonOfDegrees(90),
               LatOfDegrees(60)),
     GeoBounds(LonOfDegrees(90), LatOfDegrees(60), LonOfDegrees(180),
               LatOfDegrees(90))}

CapturedSamples == {TileCoord(1, 0, 0), TileCoord(1, 1, 1), TileCoord(2, 1, 1)}

CapturedOrders ==
    {s \in SeqsUpTo(CapturedSamples, Cardinality(CapturedSamples)) :
        \A j, k \in 1..Len(s) : s[j] = s[k] => j = k}

\* CoverageAnalyzer(bounds).analyze(captured_tiles, expand_zoom): the
\* CoverageReport (zoom_levels and the three dictionaries); no zoom levels
\* when nothing was captured.
Analyze(bounds, captured, expand_zoom) ==
    LET captured_zooms == {captured[k].z : k \in 1..Len(captured)}
        min_zoom == CHOOSE z \in captured_zooms :
                       \A w \in captured_zooms : z <= w
        top == CHOOSE z \in captured_zooms : \A w \in captured_zooms : w <= z
        max_zoom == IF expand_zoom > 0 THEN Min(22, top + expand_zoom)
                    ELSE top
        captured_at(zoom) ==
           Cardinality({k \in 1..Len(captured) : captured[k].z = zoom})
    IN  IF captured_zooms = {}
        THEN [zoom_levels |-> <<>>, tiles_by_zoom |-> <<>>,
              required_by_zoom |-> <<>>, missing_by_zoom |-> <<>>]
        ELSE [zoom_levels |->
                 [k \in 1..(max_zoom - min_zoom + 1) |-> min_zoom + k - 1],
              tiles_by_zoom |->
                 [zoom \in min_zoom..max_zoom |-> captured_at(zoom)],
              required_by_zoom |->
                 [zoom \in min_zoom..max_zoom |->
                     CountTilesForBounds(bounds, zoom)],
              missing_by_zoom |->
                 [zoom \in min_zoom..max_zoom |->
                     Max(0, CountTilesForBounds(bounds, zoom)
                               - captured_at(zoom))]]

\* CoverageReport.total_missing: sum(self.missing_by_zoom.values())
RECURSIVE SumOver(_, _)
SumOver(f, S) ==
    IF S = {} THEN 0
    ELSE LET z == CHOOSE w \in S : TRUE IN f[z] + SumOver(f, S \ {z})

TotalMissing(report) ==
    SumOver(report.missing_by_zoom, DOMAIN report.missing_by_zoom)

\* The bounds analyzed: those of CoverageBounds and a box of one column and
\* two rows at zoom 1, wholly inside the grid.
AnalyzeBounds ==
    CoverageBounds
       \cup {GeoBounds(LonOfDegrees(10), LatOfDegrees(0), LonOfDegrees(90),
                       LatOfDegrees(60))}

TileMathInit ==
    /\ OnlyCall
    /\ ret = <<>>
    /\ \/ /\ fn = "tiles_for_bounds"
          /\ arg \in [bounds : BoundsSamples, zoom : 0..MaxZoom]
       \/ /\ fn = "tile_round_trip"
          /\ arg \in [z : 0..MaxZoom, x : 0..(Pow2(MaxZoom) - 1),
                      y : 0..(Pow2(MaxZoom) - 1)]
          /\ arg.x < Pow2(arg.z) /\ arg.y < Pow2(arg.z)
       \/ /\ fn = "find_missing_tiles"
          /\ arg \in [bounds : CoverageBounds, captured : CapturedOrders,
                      zoom_levels : SeqsUpTo(0..MaxZoom, 2)]
       \/ /\ fn = "analyze"
          /\ arg \in [bounds : AnalyzeBounds, captured : CapturedOrders,
                      expand_zoom : 0..(MaxZoom - 2)]

\* tiles_for_bounds and count_tiles_for_bounds called on the same bounds and
\* zoom.
TilesForBoundsCall ==
    /\ fn = "tiles_for_bounds"
    /\ ret = <<>>
    /\ ret' = <<[tiles |-> TilesForBounds(arg.bounds, arg.zoom),
                 count |-> CountTilesForBounds(arg.bounds, arg.zoom)]>>
    /\ UNCHANGED <<fn, arg>>
    /\ UNCHANGED notCall

\* lon_to_tile_x(tile_to_lon(x, z), z) and lat_to_tile_y(tile_to_lat(y, z), z)
TileRoundTripCall(rounding) ==
    /\ fn = "tile_round_trip"
    /\ ret = <<>>
    /\ ret' = <<[x |-> LonToTileX(TileToLon(arg.x, arg.z), arg.z),
                 y |-> LatToTileY(TileToLat(arg.y, arg.z, rounding), arg.z)]>>
    /\ UNCHANGED <<fn, arg>>
    /\ UNCHANGED notCall

\* CoverageAnalyzer(bounds).find_missing_tiles(captured_tiles, zoom_levels)
FindMissingTilesCall ==
    /\ fn = "find_missing_tiles"
    /\ ret = <<>>
    /\ ret' = <<FindMissingTiles(arg.bounds, arg.captured, arg.zoom_levels)>>
    /\ UNCHANGED <<fn, arg>>
    /\ UNCHANGED notCall

\* analyze(captured_tiles, expand_zoom), then find_missing_tiles for the
\* zoom levels of the report, as expand_coverage_async calls them.
AnalyzeCall ==
    /\ fn = "analyze"
    /\ ret = <<>>
    /\ LET report == Analyze(arg.bounds, arg.captured, arg.expand_zoom)
       IN  ret' = <<[report |-> report,
                     missing |-> FindMissingTiles(arg.bounds, arg.captured,
                                                  report.zoom_levels)]>>
    /\ UNCHANGED <<fn, arg>>
    /\ UNCHANGED notCall

TileMathNext ==
    \/ AnalyzeCall
    \/ TilesForBoundsCall
    \/ \E rounding \in Roundings : TileRoundTripCall(rounding)
    \/ FindMissingTilesCall

SpecTileMath == TileMathInit /\ [][TileMathNext]_vars

(***************************************************************************)
(* Claims about TileMath and CoverageAnalyzer.                             *)
(***************************************************************************)
\* C11: tiles_for_bounds yields as many tiles as count_tiles_for_bounds
\* counts, also for bounds whose edge indices fall outside the grid.
C11_CountMatchesTiles ==
    (fn = "tiles_for_bounds" /\ ret /= <<>>) =>
       Len(ret[1].tiles) = ret[1].count

\* C12: for every requested zoom the tiles find_missing_tiles lists (none
\* when the zoom is not a key of the result) are exactly those of
\* tiles_for_bounds that were not captured, each once, in ascending
\* (z, x, y) order whatever the order of the captured set.
C12_MissingExact ==
    (fn = "find_missing_tiles" /\ ret /= <<>>) =>
       /\ DOMAIN ret[1] \subseteq Range(arg.zoom_levels)
       /\ \A z \in Range(arg.zoom_levels) :
             LET listed == IF z \in DOMAIN ret[1] THEN ret[1][z] ELSE <<>>
             IN  /\ Range(listed) =
                       Range(TilesForBounds(arg.bounds, z))
                          \ Range(arg.captured)
                 /\ \A j, k \in 1..Len(listed) :
                       j < k => KeyLess(listed[j], listed[k])

\* C12 witness: two captured tiles given in descending order, one of them
\* inside the bounds, and a zoom with several missing tiles in the result.
C12_Witness ==
    /\ fn = "find_missing_tiles"
    /\ ret /= <<>>
    /\ Len(arg.captured) = 2
    /\ KeyLess(arg.captured[2], arg.captured[1])
    /\ \E z \in DOMAIN ret[1] :
          /\ Len(ret[1][z]) >= 3
          /\ \E k \in 1..2 :
                arg.captured[k] \in Range(TilesForBounds(arg.bounds, z))

\* C24: tiles_for_bounds yields its tiles sorted ascending by (y, x): row
\* after row, each row in ascending x.
C24_RowMajor ==
    (fn = "tiles_for_bounds" /\ ret /= <<>>) =>
       \A j, k \in 1..Len(ret[1].tiles) :
          j < k =>
             LET a == ret[1].tiles[j]
                 b == ret[1].tiles[k]
             IN  a.y < b.y \/ (a.y = b.y /\ a.x < b.x)

\* C30: for every zoom level of the report of analyze, missing_by_zoom is
\* the number of tiles find_missing_tiles returns for that zoom, and
\* total_missing is 0 exactly when find_missing_tiles returns no tile.
C30_ReportAgreesWithGaps ==
    (fn = "analyze" /\ ret /= <<>>) =>
       LET report == ret[1].report
           listed(z) == IF z \in DOMAIN ret[1].missing
                        THEN Len(ret[1].missing[z]) ELSE 0
       IN  /\ \A z \in DOMAIN report.missing_by_zoom :
                 report.missing_by_zoom[z] = listed(z)
           /\ TotalMissing(report) = 0 <=> DOMAIN ret[1].missing = {}

\* C20: for every zoom and every tile index of its grid, the longitude of
\* column x converts back to x and the latitude of row y back to y.
C20_TileMathInverse ==
    (fn = "tile_round_trip" /\ ret /= <<>>) =>
       ret[1].x = arg.x /\ ret[1].y = arg.y

(***************************************************************************)
(*      layer_inspector: decompress_tile, extract_layer_names_protobuf     *)
(***************************************************************************)
\* bytes.decode('utf-8'): the code points of the text, or a failure
\* (UnicodeDecodeError) at a byte that starts no sequence or a sequence cut
\* short.  (Overlong forms and surrogates, which the sample data does not
\* hold, are not told apart.)
IsContinuation(b) == b >= 128 /\ b <= 191

\* Every byte taken for one character (a Latin-1 decoder).
Utf8DecodeBytewise(b) == [ok |-> TRUE, text |-> b]

RECURSIVE Utf8Decode(_)
Utf8Decode(b) ==
    IF b = <<>> THEN [ok |-> TRUE, text |-> <<>>]
    ELSE LET lead == b[1]
             extra == IF lead < 128 THEN 0
                      ELSE IF lead >= 194 /\ lead <= 223 THEN 1
                      ELSE IF lead >= 224 /\ lead <= 239 THEN 2
                      ELSE IF lead >= 240 /\ lead <= 244 THEN 3
                      ELSE -1
         IN  IF extra = -1 \/ Len(b) < 1 + extra
                \/ \E k \in 2..(1 + extra) : ~IsContinuation(b[k])
             THEN [ok |-> FALSE, text |-> <<>>]
             ELSE LET point ==
                        CASE extra = 0 -> lead
                          [] extra = 1 -> (lead - 192) * 64 + (b[2] - 128)
                          [] extra = 2 -> (lead - 224) * 4096
                                + (b[2] - 128) * 64 + (b[3] - 128)
                          [] extra = 3 -> (lead - 240) * 262144
                                + (b[2] - 128) * 4096 + (b[3] - 128) * 64
                                + (b[4] - 128)
                      rest == Utf8Decode(SubSeq(b, 2 + extra, Len(b)))
                  IN  IF rest.ok
                      THEN [ok |-> TRUE, text |-> <<point>> \o rest.text]
                      ELSE rest

\* data[a:b] for 0 <= a: the slice ends at the end of the data.
Slice(data, a, b) == SubSeq(data, a + 1, Min(b, Len(data)))

\* decompress_tile without the try ... except around gzip.decompress.
DecompressTileUnguarded(content) ==
    IF Slice(content, 0, 2) = GzipMagic
    THEN IF GzipDecompress(content).ok
         THEN [kind |-> "return", data |-> GzipDecompress(content).data]
         ELSE [kind |-> "raise", data |-> <<>>]
    ELSE [kind |-> "return", data |-> content]

\* decompress_tile(content)
DecompressTile(content) ==
    IF Slice(content, 0, 2) = GzipMagic /\ GzipDecompress(content).ok
    THEN [kind |-> "return", data |-> GzipDecompress(content).data]
    ELSE [kind |-> "return", data |-> content]

\* _read_varint(data, pos) of layer_inspector: (None, pos) when the data
\* ends inside the varint or after ten bytes with the high bit set.
RECURSIVE PbReadVarintFrom(_, _, _, _)
PbReadVarintFrom(data, pos, result, shift) ==
    IF pos >= Len(data) THEN [ok |-> FALSE, value |-> 0, pos |-> pos]
    ELSE LET byte == data[pos + 1]
             low == byte % 128
             r == IF low = 0 THEN result ELSE result + low * (2 ^ shift)
         IN  IF byte < 128 THEN [ok |-> TRUE, value |-> r, pos |-> pos + 1]
             ELSE IF shift + 7 > 64
             THEN [ok |-> FALSE, value |-> 0, pos |-> pos + 1]
             ELSE PbReadVarintFrom(data, pos + 1, r, shift + 7)

PbReadVarint(data, pos) == PbReadVarintFrom(data, pos, 0, 0)

\* A _skip_field that steps back to the tag of a field of a wire type it
\* does not know.
SkipFieldStaying(data, pos, wire_type) ==
    CASE wire_type = 0 -> [ok |-> TRUE, pos |-> PbReadVarint(data, pos).pos]
      [] wire_type = 1 -> [ok |-> TRUE, pos |-> pos + 8]
      [] wire_type = 2 ->
            LET v == PbReadVarint(data, pos)
            IN  IF v.ok THEN [ok |-> TRUE, pos |-> v.pos + v.value]
                ELSE [ok |-> FALSE, pos |-> pos]
      [] wire_type = 5 -> [ok |-> TRUE, pos |-> pos + 4]
      [] OTHER -> [ok |-> TRUE, pos |-> pos - 1]

\* _skip_field(data, pos, wire_type): the position after the field, or
\* None.
SkipField(data, pos, wire_type) ==
    CASE wire_type = 0 -> [ok |-> TRUE, pos |-> PbReadVarint(data, pos).pos]
      [] wire_type = 1 -> [ok |-> TRUE, pos |-> pos + 8]
      [] wire_type = 2 ->
            LET v == PbReadVarint(data, pos)
            IN  IF v.ok THEN [ok |-> TRUE, pos |-> v.pos + v.value]
                ELSE [ok |-> FALSE, pos |-> pos]
      [] wire_type = 5 -> [ok |-> TRUE, pos |-> pos + 4]
      [] OTHER -> [ok |-> FALSE, pos |-> pos]

\* Where a loop of the walk stands after an iteration: whether it was left
\* by `break`, the position (the last one held when _skip_field gave
\* None), and what has been found.
Walked(exit, pos, found) == [exit |-> exit, pos |-> pos, found |-> found]

\* One iteration of the loop of _parse_layer at pos < len(layer_data), with
\* the name found so far (Nothing for None).
ParseLayerIteration(layer_data, pos, name) ==
    LET tag_byte == layer_data[pos + 1]
        field_num == tag_byte \div 8
        wire_type == tag_byte % 8
        v == PbReadVarint(layer_data, pos + 1)
        skipped == SkipField(layer_data, pos + 1, wire_type)
    IN  IF field_num = 1 /\ wire_type = 2
        THEN IF ~v.ok \/ v.pos + v.value > Len(layer_data)
             THEN Walked(TRUE, v.pos, name)
             ELSE LET decoded ==
                         Utf8Decode(Slice(layer_data, v.pos, v.pos + v.value))
                  IN  Walked(FALSE, v.pos + v.value,
                             IF decoded.ok THEN Some(decoded.text) ELSE name)
        ELSE IF field_num = 2 /\ wire_type = 2
        THEN IF ~v.ok THEN Walked(TRUE, v.pos, name)
             ELSE Walked(FALSE, v.pos + v.value, name)
        ELSE IF ~skipped.ok THEN Walked(TRUE, pos + 1, name)
             ELSE Walked(FALSE, skipped.pos, name)

\* The loop of _parse_layer from position pos on; the name the loop ends
\* with.
RECURSIVE ParseLayerFrom(_, _, _)
ParseLayerFrom(layer_data, pos, name) ==
    IF pos >= Len(layer_data) THEN name
    ELSE LET next(after) ==
                 IF after.exit THEN after.found
                 ELSE ParseLayerFrom(layer_data, after.pos, after.found)
         IN  next(ParseLayerIteration(layer_data, pos, name))

\* _parse_layer(layer_data): the name of the TileLayerInfo returned, or
\* Nothing when it returns None (no name or an empty one).
ParseLayer(layer_data) ==
    LET named(name) ==
            IF name /= Nothing /\ name[1] /= <<>> THEN name ELSE Nothing
    IN  named(ParseLayerFrom(layer_data, 0, Nothing))

\* One iteration of the loop of extract_layer_names_protobuf at
\* pos < len(content).
ExtractIteration(content, pos, layer_names) ==
    LET tag_byte == content[pos + 1]
        field_num == tag_byte \div 8
        wire_type == tag_byte % 8
        v == PbReadVarint(content, pos + 1)
        skipped == SkipField(content, pos + 1, wire_type)
    IN  IF field_num = 3 /\ wire_type = 2
        THEN IF ~v.ok \/ v.pos + v.value > Len(content)
             THEN Walked(TRUE, v.pos, layer_names)
             ELSE LET with(layer) ==
                          Walked(FALSE, v.pos + v.value,
                                 IF layer /= Nothing
                                 THEN Append(layer_names, layer[1])
                                 ELSE layer_names)
                  IN  with(ParseLayer(Slice(content, v.pos,
                                            v.pos + v.value)))
        ELSE IF ~skipped.ok THEN Walked(TRUE, pos + 1, layer_names)
             ELSE Walked(FALSE, skipped.pos, layer_names)

\* The loop of extract_layer_names_protobuf from position pos on.
RECURSIVE ExtractFrom(_, _, _)
ExtractFrom(content, pos, layer_names) ==
    IF pos >= Len(content) THEN layer_names
    ELSE LET next(after) ==
                 IF after.exit THEN after.found
                 ELSE ExtractFrom(content, after.pos, after.found)
         IN  next(ExtractIteration(content, pos, layer_names))

\* extract_layer_names_protobuf(tile_content): the list returned (names as
\* sequences of code points), or the exception that leaves the function.
ExtractLayerNamesProtobuf(tile_content) ==
    LET walk(content) ==
            IF content.kind = "raise"
            THEN [kind |-> "raise", names |-> <<>>]
            ELSE [kind |-> "return",
                  names |-> ExtractFrom(content.data, 0, <<>>)]
    IN  walk(DecompressTile(tile_content))

\* Layers of a tile: the bytes of the name, the text they spell, and the
\* bytes of the fields after the name.  'roads'; 'parcels' with a feature
\* (field 2) and a version (field 15); a name with a two-byte character;
\* a name that is no UTF-8.
LayerRoads ==
    [name |-> <<114, 111, 97, 100, 115>>, text |-> <<114, 111, 97, 100, 115>>,
     valid |-> TRUE, rest |-> <<>>]
LayerParcels ==
    [name |-> <<112, 97, 114, 99, 101, 108, 115>>,
     text |-> <<112, 97, 114, 99, 101, 108, 115>>,
     valid |-> TRUE, rest |-> <<18, 1, 0, 120, 2>>]
LayerCafe ==
    [name |-> <<99, 97, 102, 195, 169>>, text |-> <<99, 97, 102, 233>>,
     valid |-> TRUE, rest |-> <<120, 2>>]
LayerNotUtf8 ==
    [name |-> <<195, 40>>, text |-> <<>>, valid |-> FALSE, rest |-> <<>>]

LayerSamples == {LayerRoads, LayerParcels, LayerCafe, LayerNotUtf8}

\* A Layer message (field 1 = name, then the other fields) and a Tile
\* message (each layer in a field 3), as an encoder writes them.
PbLayer(layer) ==
    <<10>> \o WriteVarint(Len(layer.name)) \o layer.name \o layer.rest

RECURSIVE PbTile(_)
PbTile(layers) ==
    IF layers = <<>> THEN <<>>
    ELSE <<26>> \o WriteVarint(Len(PbLayer(layers[1]))) \o PbLayer(layers[1])
            \o PbTile(Tail(layers))

\* Bytes that follow the layers of a damaged tile: fields of the wire types
\* 3, 4, 6 and 7, a layer longer than the rest of the buffer, a length cut
\* inside its varint, a varint field without its value, a 64-bit field cut
\* short, and a length of eleven bytes.
JunkSamples ==
    {<<27>>, <<28>>, <<30>>, <<31>>, <<26, 5, 10>>, <<26, 128>>, <<8>>,
     <<9, 1>>, <<26>> \o [k \in 1..11 |-> 128]}

\* Well-formed fields that are no layer of a tile and no name or feature
\* of a layer: field 1 as a varint of one and of two bytes, field 15 as
\* 64-bit, field 4 as length-delimited, field 5 as 32-bit, and field 16,
\* whose tag is the varint 128 1, in each of the four wire types.
UnknownFields ==
    {<<8, 5>>, <<8, 172, 2>>, <<121, 1, 2, 3, 4, 5, 6, 7, 8>>,
     <<34, 2, 26, 0>>, <<45, 1, 2, 3, 4>>,
     <<128, 1, 5>>, <<129, 1, 1, 2, 3, 4, 5, 6, 7, 8>>, <<130, 1, 1, 7>>,
     <<133, 1, 1, 2, 3, 4>>}

\* The tile of the layers with a field put in after the first `at` layers.
WithFieldAmongLayers(layers, at, field) ==
    PbTile(SubSeq(layers, 1, at)) \o field
       \o PbTile(SubSeq(layers, at + 1, Len(layers)))

\* The tile of the layers with a field put into the at-th layer, before its
\* name (front) or right after it.
WithFieldInLayer(layers, at, field, front) ==
    LET body == IF front THEN field \o PbLayer(layers[at])
                ELSE PbLayer([layers[at] EXCEPT !.rest = field \o @])
    IN  PbTile(SubSeq(layers, 1, at - 1))
           \o <<26>> \o WriteVarint(Len(body)) \o body
           \o PbTile(SubSeq(layers, at + 1, Len(layers)))

\* Bytes of which every short string is tried as a tile.
PbAlphabet == {0, 10, 26, 27, 31, 128, 139}

\* The bytes handed to extract_layer_names_protobuf: the tile of
\* arg.layers, cut after arg.at bytes, followed by arg.bytes or with the
\* field arg.bytes put in, then gzipped if arg.gz, and for "corrupt gzip"
\* with the checksum of the stream changed.
TileContent(a) ==
    LET base == PbTile(a.layers)
        damaged == CASE a.damage = "cut" -> SubSeq(base, 1, a.at)
                     [] a.damage \in {"junk", "bytes"} -> base \o a.bytes
                     [] a.damage = "field among layers" ->
                           WithFieldAmongLayers(a.layers, a.at, a.bytes)
                     [] a.damage = "field in front of layer" ->
                           WithFieldInLayer(a.layers, a.at, a.bytes, TRUE)
                     [] a.damage = "field in layer" ->
                           WithFieldInLayer(a.layers, a.at, a.bytes, FALSE)
                     [] OTHER -> base
        wrapped == IF a.gz THEN GzipCompress(damaged, 0) ELSE damaged
    IN  IF a.damage = "corrupt gzip"
        THEN SubSeq(wrapped, 1, Len(wrapped) - 1)
                \o <<(wrapped[Len(wrapped)] + 1) % 256>>
        ELSE wrapped

LayerInit ==
    /\ OnlyCall
    /\ fn = "extract_layer_names_protobuf"
    /\ ret = <<>>
    /\ \/ \E layers \in SeqsUpTo(LayerSamples, MaxLayers), gz \in BOOLEAN :
             \/ arg = [layers |-> layers, gz |-> gz, damage |-> "none",
                       at |-> 0, bytes |-> <<>>]
             \/ \E at \in 0..(Len(PbTile(layers)) - 1) :
                   arg = [layers |-> layers, gz |-> gz, damage |-> "cut",
                          at |-> at, bytes |-> <<>>]
             \/ \E junk \in JunkSamples :
                   arg = [layers |-> layers, gz |-> gz, damage |-> "junk",
                          at |-> 0, bytes |-> junk]
             \/ /\ gz
                /\ arg = [layers |-> layers, gz |-> gz,
                          damage |-> "corrupt gzip", at |-> 0,
                          bytes |-> <<>>]
             \/ \E field \in UnknownFields :
                   \/ \E at \in 0..Len(layers) :
                         arg = [layers |-> layers, gz |-> gz,
                                damage |-> "field among layers", at |-> at,
                                bytes |-> field]
                   \/ \E at \in 1..Len(layers) :
                         \E damage \in {"field in front of layer",
                                        "field in layer"} :
                            arg = [layers |-> layers, gz |-> gz,
                                   damage |-> damage, at |-> at,
                                   bytes |-> field]
       \/ \E bytes \in SeqsUpTo(PbAlphabet, MaxPbLen) :
             arg = [layers |-> <<>>, gz |-> FALSE, damage |-> "bytes",
                    at |-> 0, bytes |-> bytes]

ExtractLayerNamesCall ==
    /\ fn = "extract_layer_names_protobuf"
    /\ ret = <<>>
    /\ ret' = <<ExtractLayerNamesProtobuf(TileContent(arg))>>
    /\ UNCHANGED <<fn, arg>>
    /\ UNCHANGED notCall

SpecLayers == LayerInit /\ [][ExtractLayerNamesCall]_vars

(***************************************************************************)
(* Claims about extract_layer_names_protobuf.                              *)
(***************************************************************************)
\* The names (as text) of the first n of the layers, those without a
\* decodable name left out.
RECURSIVE NamesOf(_, _)
NamesOf(layers, n) ==
    IF n = 0 THEN <<>>
    ELSE NamesOf(layers, n - 1)
            \o (IF layers[n].valid THEN <<layers[n].text>> ELSE <<>>)

\* How many of the layers lie wholly within the first `at` bytes of their
\* tile.
WholeLayers(layers, at) ==
    Cardinality({n \in 1..Len(layers) :
                    Len(PbTile(SubSeq(layers, 1, n))) <= at})

IsPrefix(s, t) == Len(s) <= Len(t) /\ SubSeq(t, 1, Len(s)) = s

C14_BestEffort ==
    (fn = "extract_layer_names_protobuf" /\ ret /= <<>>) =>
       /\ ret[1].kind = "return"
       /\ arg.damage \in {"none", "junk", "bytes"} =>
             IsPrefix(NamesOf(arg.layers, Len(arg.layers)), ret[1].names)
       /\ arg.damage = "cut" =>
             ret[1].names =
                NamesOf(arg.layers, WholeLayers(arg.layers, arg.at))

\* C14 witness: a tile of two layers cut inside its second layer has been
\* read and the name of the first was returned.
C14_Witness ==
    /\ fn = "extract_layer_names_protobuf"
    /\ ret /= <<>>
    /\ arg.damage = "cut" /\ Len(arg.layers) = 2
    /\ WholeLayers(arg.layers, arg.at) = 1
    /\ Len(ret[1].names) = 1

\* C26: a well-formed unknown field put in before, between or after the
\* layers of a tile, or into a layer, leaves the names returned as they
\* are without it.
C26_UnknownFieldsSkipped ==
    (/\ fn = "extract_layer_names_protobuf" /\ ret /= <<>>
     /\ arg.damage \in {"field among layers", "field in front of layer",
                        "field in layer"}) =>
       ret[1].names = ExtractLayerNamesProtobuf(PbTile(arg.layers)).names

(***************************************************************************)
(*        PMTilesReader: get_tile called by several threads at once        *)
(*                                                                         *)
(* The threads share the reader: its file object (one position for all),   *)
(* its header attributes and its directory cache.  A thread may be         *)
(* switched out between any two calls, so file.seek, file.read and the     *)
(* store into the cache are steps of their own; what a thread computes     *)
(* between them touches its locals only.                                   *)
(***************************************************************************)
Threads == 1..2

\* get_tile calls made on the reader, over all threads.
MaxLookups == 2

\* The tiles of the archive the reader serves.
ReaderTiles ==
    <<[coord |-> TileCoord(0, 0, 0), data |-> <<7>>],
      [coord |-> TileCoord(1, 0, 0), data |-> <<8, 9>>]>>

\* The coordinates asked for: the two tiles and one the archive lacks.
ReaderCoords == {TileCoord(0, 0, 0), TileCoord(1, 0, 0), TileCoord(1, 1, 1)}

\* A version 3 archive of the two tiles: header, root directory, JSON
\* metadata, tile data.  Internal compression 1 is none (the directory is
\* stored as serialized), 2 is gzip, as the pmtiles writer stores it.
SampleArchive(internal_compression) ==
    LET entries == <<Entry(0, 0, 1, 1), Entry(1, 1, 2, 1)>>
        root == IF internal_compression = 2
                THEN GzipCompress(DirectoryBytes(entries), 0)
                ELSE DirectoryBytes(entries)
        h == [name \in {HeaderFields[k] : k \in 1..Len(HeaderFields)} |->
                CASE name = "root_dir_offset" -> 127
                  [] name = "root_dir_length" -> Len(root)
                  [] name = "json_metadata_offset" -> 127 + Len(root)
                  [] name = "json_metadata_length" -> Len(JsonBytes)
                  [] name = "leaf_dirs_offset" ->
                        127 + Len(root) + Len(JsonBytes)
                  [] name = "tile_data_offset" ->
                        127 + Len(root) + Len(JsonBytes)
                  [] name = "tile_data_length" -> 3
                  [] name \in {"num_addressed_tiles", "num_tile_entries",
                               "num_tile_contents"} -> 2
                  [] name = "clustered" -> 1
                  [] name = "internal_compression" -> internal_compression
                  [] name = "tile_compression" -> 1
                  [] name = "tile_type" -> 2
                  [] name = "max_zoom" -> 1
                  [] OTHER -> 0]
    IN  SerializeHeader(h) \o root \o JsonBytes
           \o ReaderTiles[1].data \o ReaderTiles[2].data

\* The reader after __init__ on the file: the file object stands behind the
\* 127 header bytes, the attributes hold the header fields the file stores,
\* the cache is empty.  (This is the opened reader the lookups start from;
\* _read_header itself is followed in SpecReadHeader.)
OpenedReader(bytes) ==
    [bytes |-> bytes,
     header |-> UnpackValues(HeaderFormatOfLayout, FileRead(bytes, 8, 119))]

\* The packages that can be imported where the reader runs: neither brotli
\* nor zstandard.
ReaderInstalled == {}

\* _read_directory(offset, length) and get_tile(z, x, y) by one thread alone
\* on a reader just opened.
DirectoryAlone(key) ==
    ReadDirectory(reader[1].bytes, reader[1].header, key[1], key[2],
                  ReaderInstalled, Raised("codec error", {}))

TileAlone(c) ==
    GetTile(reader[1].bytes, reader[1].header, c, ReaderInstalled,
            Raised("codec error", {}))

\* The locals of a thread outside get_tile.
IdleLookup ==
    [pc |-> "idle", coord |-> TileCoord(0, 0, 0), frames |-> <<>>,
     key |-> <<0, 0>>, raw |-> <<>>, slot |-> <<0, 0>>,
     result |-> TileReturned(Nothing), calls |-> 0]

\* The running calls of _find_tile, outermost first: the entries each loops
\* over and the index of the entry its loop takes next.
Frame(entries, k) == [entries |-> entries, k |-> k]

\* _find_tile from where the innermost call stands up to the next call of
\* _read_directory (kind "read": the frames to come back to and the cache
\* key), or to the return of the outermost call ("found" with the offset
\* and length of an entry, or "none").
\* A search that matches the first tile id of an entry only.
InRunFirstOnly(entry, tile_id) == entry.tile_id = tile_id

\* `entry['tile_id'] <= tile_id < entry['tile_id'] + entry['run_length']`
InRun(entry, tile_id) ==
    entry.tile_id <= tile_id /\ tile_id < entry.tile_id + entry.run_length

\* A search without the depth guard.
NeverTooDeep(depth) == FALSE

\* `if depth > 10: return None, None`
TooDeep(depth) == depth > 10

Advance(frames, tile_id, h) ==
    LET from[n \in Nat] ==
            IF n = 0
            THEN [kind |-> "none", frames |-> <<>>, key |-> <<0, 0>>]
            ELSE LET depth == n - 1
                     top == frames[n]
                     outer == SubSeq(frames, 1, n - 1)
                     \* the entries the loop does not pass over
                     stops == {j \in top.k..Len(top.entries) :
                                 LET entry == top.entries[j]
                                 IN  IF entry.type = "tile"
                                     THEN InRun(entry, tile_id)
                                     ELSE entry.tile_id <= tile_id}
                 IN  IF TooDeep(depth) \/ stops = {}
                     THEN from[n - 1]
                     ELSE LET j == CHOOSE m \in stops :
                                      \A i \in stops : m <= i
                              entry == top.entries[j]
                          IN  IF entry.type = "tile"
                              THEN [kind |-> "found", frames |-> <<>>,
                                    key |-> <<entry.offset, entry.length>>]
                              ELSE [kind |-> "read",
                                    frames |-> Append(outer,
                                                 Frame(top.entries, j + 1)),
                                    key |-> <<Field(h, "leaf_dirs_offset")
                                                 + entry.offset,
                                              entry.length>>]
    IN  from[Len(frames)]

\* _read_directory has returned `entries` to thread t: _find_tile is called
\* on them and runs on.
Enter(t, entries) ==
    LET me == lookup[t]
        step == Advance(Append(me.frames, Frame(entries, 1)),
                        ZxyToTileId(me.coord.z, me.coord.x, me.coord.y),
                        reader[1].header)
    IN  lookup' = [lookup EXCEPT ![t] =
           CASE step.kind = "found" ->
                   [me EXCEPT !.pc = "tile_seek", !.frames = <<>>,
                              !.slot = step.key]
             [] step.kind = "none" ->
                   [me EXCEPT !.pc = "done", !.frames = <<>>,
                              !.result = TileReturned(Nothing)]
             [] step.kind = "read" ->
                   [me EXCEPT !.pc = "directory", !.frames = step.frames,
                              !.key = step.key]]

ReaderInit ==
    /\ FetchIdle /\ CallIdle /\ BuildIdle
    /\ reader \in {Some(OpenedReader(SampleArchive(ic))) : ic \in {1, 2}}
    /\ filePos = 127
    /\ directory_cache = <<>>
    /\ lookup = [t \in Threads |-> IdleLookup]

\* Thread t calls get_tile(z, x, y): the tile id is computed and
\* _read_directory is called for the root directory.
StartLookup(t, c) ==
    /\ lookup[t].pc \in {"idle", "done", "raised"}
    /\ lookup[1].calls + lookup[2].calls < MaxLookups
    /\ lookup' = [lookup EXCEPT ![t] =
          [IdleLookup EXCEPT
              !.pc = "directory", !.coord = c,
              !.key = <<Field(reader[1].header, "root_dir_offset"),
                        Field(reader[1].header, "root_dir_length")>>,
              !.calls = lookup[t].calls + 1]]
    /\ UNCHANGED <<reader, filePos, directory_cache>>
    /\ UNCHANGED notRead

\* `if cache_key in self._directory_cache: return ...`
CacheLookup(t) ==
    /\ lookup[t].pc = "directory"
    /\ IF lookup[t].key \in DOMAIN directory_cache
       THEN Enter(t, directory_cache[lookup[t].key])
       ELSE lookup' = [lookup EXCEPT ![t].pc = "dir_seek"]
    /\ UNCHANGED <<reader, filePos, directory_cache>>
    /\ UNCHANGED notRead

\* `self.file.seek(offset)` of _read_directory
DirSeek(t) ==
    /\ lookup[t].pc = "dir_seek"
    /\ filePos' = lookup[t].key[1]
    /\ lookup' = [lookup EXCEPT ![t].pc = "dir_read"]
    /\ UNCHANGED <<reader, directory_cache>>
    /\ UNCHANGED notRead

\* `raw_data = self.file.read(length)`: from wherever the file object
\* stands now.
DirRead(t) ==
    /\ lookup[t].pc = "dir_read"
    /\ LET raw == FileRead(reader[1].bytes, filePos, lookup[t].key[2])
       IN  /\ filePos' = filePos + Len(raw)
           /\ lookup' = [lookup EXCEPT ![t].pc = "dir_store",
                                       ![t].raw = raw]
    /\ UNCHANGED <<reader, directory_cache>>
    /\ UNCHANGED notRead

\* The rest of _read_directory: the data are decompressed (which may raise)
\* and parsed, the entries stored under the key and returned.
DirStore(t) ==
    /\ lookup[t].pc = "dir_store"
    /\ \E d \in {Decompress(lookup[t].raw,
                       Field(reader[1].header, "internal_compression"),
                       ReaderInstalled, Raised("codec error", {}))} :
          IF d.kind = "raise"
          THEN /\ lookup' = [lookup EXCEPT ![t] =
                     [lookup[t] EXCEPT !.pc = "raised", !.frames = <<>>,
                                       !.result = TileRaised(d.error)]]
               /\ UNCHANGED directory_cache
          ELSE \E entries \in {ParseDirectory(d.data)} :
                  /\ directory_cache' =
                        [k \in DOMAIN directory_cache \cup {lookup[t].key} |->
                            IF k = lookup[t].key THEN entries
                            ELSE directory_cache[k]]
                  /\ Enter(t, entries)
    /\ UNCHANGED <<reader, filePos>>
    /\ UNCHANGED notRead

\* `self.file.seek(self.tile_data_offset + offset)` of get_tile
TileSeek(t) ==
    /\ lookup[t].pc = "tile_seek"
    /\ filePos' = Field(reader[1].header, "tile_data_offset")
                     + lookup[t].slot[1]
    /\ lookup' = [lookup EXCEPT ![t].pc = "tile_read"]
    /\ UNCHANGED <<reader, directory_cache>>
    /\ UNCHANGED notRead

\* `tile_data = self.file.read(length); return tile_data`
TileRead(t) ==
    /\ lookup[t].pc = "tile_read"
    /\ LET data == FileRead(reader[1].bytes, filePos, lookup[t].slot[2])
       IN  /\ filePos' = filePos + Len(data)
           /\ lookup' = [lookup EXCEPT
                 ![t].pc = "done",
                 ![t].result = TileReturned(Some(data))]
    /\ UNCHANGED <<reader, directory_cache>>
    /\ UNCHANGED notRead

ReaderNext ==
    \E t \in Threads :
       \/ \E c \in ReaderCoords : StartLookup(t, c)
       \/ CacheLookup(t)
       \/ DirSeek(t)
       \/ DirRead(t)
       \/ DirStore(t)
       \/ TileSeek(t)
       \/ TileRead(t)

SpecReader == ReaderInit /\ [][ReaderNext]_vars

MaxEntries == 2

\* The four passes after the entry count: tile id deltas, run lengths,
\* lengths, and for every entry of length > 0 the distance of its offset
\* from the offset before it.
RECURSIVE OffsetDeltas(_, _)
OffsetDeltas(entries, offset_acc) ==
    IF entries = <<>> THEN <<>>
    ELSE IF entries[1].length = 0
    THEN OffsetDeltas(Tail(entries), offset_acc)
    ELSE WriteVarint(entries[1].offset - offset_acc)
            \o OffsetDeltas(Tail(entries), entries[1].offset)

SerializeDirectory(entries) ==
    LET n == Len(entries)
    IN  WriteVarint(n)
        \o VarintsOf([k \in 1..n |->
              entries[k].tile_id
                 - (IF k = 1 THEN 0 ELSE entries[k - 1].tile_id)])
        \o VarintsOf([k \in 1..n |-> entries[k].run_length])
        \o VarintsOf([k \in 1..n |-> entries[k].length])
        \o OffsetDeltas(entries, 0)

\* Entry lists with strictly increasing tile ids, built from steps: the gap
\* to the tile id before, the run length (0: a leaf pointer), the length,
\* and how far the offset lies behind the last offset written.  Gaps and
\* lengths of 128 and more take two varint bytes.
DirSteps ==
    [gap : {0, 1, 130}, run_length : {0, 1, 2}, length : {0, 200},
     shift : {0, 7}]

RECURSIVE EntriesOf(_, _, _)
EntriesOf(steps, tile_id, offset_acc) ==
    IF steps = <<>> THEN <<>>
    ELSE LET s == steps[1]
             e == DirEntry(IF s.run_length = 0 THEN "leaf" ELSE "tile",
                           tile_id + s.gap, s.run_length,
                           offset_acc + s.shift, s.length)
         IN  <<e>> \o EntriesOf(Tail(steps), e.tile_id,
                                IF s.length = 0 THEN offset_acc ELSE e.offset)

DirectorySamples ==
    {steps \in SeqsUpTo(DirSteps, MaxEntries) :
        \A k \in 2..Len(steps) : steps[k].gap >= 1}

\* The header attributes of a reader whose file holds nothing but the
\* directory, stored as serialized.
BareHeader(internal_compression) ==
    [k \in 1..Len(HeaderFields) |->
        IF HeaderFields[k] = "internal_compression"
        THEN internal_compression ELSE 0]

DirectoryInit ==
    /\ OnlyCall
    /\ fn = "_read_directory"
    /\ arg \in [steps : DirectorySamples, internal_compression : {0, 1}]
    /\ ret = <<>>

\* _read_directory(0, length) on the file.
ReadDirectoryCall ==
    /\ fn = "_read_directory"
    /\ ret = <<>>
    /\ LET data == SerializeDirectory(EntriesOf(arg.steps, 0, 0))
       IN  ret' = <<ReadDirectory(data, BareHeader(arg.internal_compression),
                                  0, Len(data), {},
                                  Raised("codec error", {}))>>
    /\ UNCHANGED <<fn, arg>>
    /\ UNCHANGED notCall

SpecDirectory == DirectoryInit /\ [][ReadDirectoryCall]_vars

(***************************************************************************)
(* Claims about _read_directory.                                           *)
(***************************************************************************)
\* The offset an entry is decoded with: its own, or for an entry of length
\* 0 the offset of the entry before it (0 for the first).
RECURSIVE WithRunOffsets(_, _)
WithRunOffsets(entries, previous) ==
    IF entries = <<>> THEN <<>>
    ELSE LET e == IF entries[1].length = 0
                  THEN [entries[1] EXCEPT !.offset = previous]
                  ELSE entries[1]
         IN  <<e>> \o WithRunOffsets(Tail(entries), e.offset)

\* C23: a list of entries with strictly increasing tile ids, serialized as
\* the count and the four varint passes, is decoded by _read_directory to
\* the same entries in the same order: tile ids as running sums, an entry
\* of length 0 with the offset of the entry before it, an entry of run
\* length 0 as a leaf pointer.
C23_DirectoryRoundTrip ==
    (fn = "_read_directory" /\ ret /= <<>>) =>
       /\ ret[1].kind = "return"
       /\ ret[1].entries = WithRunOffsets(EntriesOf(arg.steps, 0, 0), 0)

\* C23 witness: two entries were decoded, the first a leaf pointer with a
\* two-byte tile id, the second a tile entry of length 0 whose own offset
\* differs from the one before it.
C23_Witness ==
    /\ fn = "_read_directory" /\ ret /= <<>>
    /\ Len(arg.steps) = 2
    /\ arg.steps[1].gap = 130 /\ arg.steps[1].run_length = 0
    /\ arg.steps[1].length = 200 /\ arg.steps[1].shift = 7
    /\ arg.steps[2].run_length = 2 /\ arg.steps[2].length = 0
    /\ arg.steps[2].shift = 7
    /\ Len(ret[1].entries) = 2
    /\ ret[1].entries[1].type = "leaf"
    /\ ret[1].entries[2].offset = 7

(***************************************************************************)
(*      PMTilesReader._find_tile on root and leaf directories              *)
(*                                                                         *)
(* One thread makes its lookups on a reader whose file holds a root        *)
(* directory and leaf directories, well-formed or with leaf pointers that  *)
(* lead back to a directory already entered.                               *)
(***************************************************************************)
\* The entries of a directory before the leaf pointers are resolved to
\* (offset, length): a tile entry, or a pointer to the leaf-th leaf
\* directory.
TileItem(tile_id, run_length, offset, length) ==
    [type |-> "tile", tile_id |-> tile_id, run_length |-> run_length,
     offset |-> offset, length |-> length, leaf |-> 0]
LeafItem(tile_id, leaf) ==
    [type |-> "leaf", tile_id |-> tile_id, run_length |-> 0, offset |-> 0,
     length |-> 0, leaf |-> leaf]

\* Well-formed directory structures (strictly increasing tile ids, runs
\* that do not overlap): a root of tile entries, one of them a run of
\* three; two leaves behind the root; a leaf behind a leaf.
FlatTree ==
    [root |-> <<TileItem(0, 1, 0, 1), TileItem(2, 3, 1, 2),
                TileItem(7, 1, 3, 1)>>,
     leaves |-> <<>>, cyclic |-> FALSE]
LeafTree ==
    [root |-> <<LeafItem(0, 1), LeafItem(10, 2)>>,
     leaves |-> << <<TileItem(0, 1, 0, 1), TileItem(3, 2, 1, 1)>>,
                   <<TileItem(10, 3, 2, 2), TileItem(14, 1, 4, 1)>> >>,
     cyclic |-> FALSE]
DeepTree ==
    [root |-> <<LeafItem(0, 1)>>,
     leaves |-> << <<TileItem(0, 1, 0, 1), LeafItem(3, 2)>>,
                   <<TileItem(3, 2, 1, 3)>> >>,
     cyclic |-> FALSE]

\* Malformed structures: a leaf that points to itself; a leaf whose leaf
\* points back to it; a leaf with two pointers to itself before a tile
\* entry.
SelfLoop ==
    [root |-> <<LeafItem(0, 1)>>, leaves |-> << <<LeafItem(0, 1)>> >>,
     cyclic |-> TRUE]
AncestorLoop ==
    [root |-> <<LeafItem(0, 1)>>,
     leaves |-> << <<LeafItem(0, 2)>>, <<LeafItem(0, 1)>> >>,
     cyclic |-> TRUE]
TwinLoop ==
    [root |-> <<LeafItem(0, 1)>>,
     leaves |-> << <<LeafItem(0, 1), LeafItem(4, 1),
                     TileItem(12, 1, 0, 1)>> >>,
     cyclic |-> TRUE]

TreeSamples ==
    {FlatTree, LeafTree, DeepTree, SelfLoop, AncestorLoop, TwinLoop}

\* The serialized size of a directory whose varints take one byte each: the
\* count, three passes, and an offset delta per entry of length > 0 (every
\* leaf pointer has one).
DirSize(items) ==
    1 + 3 * Len(items)
      + Cardinality({k \in 1..Len(items) :
                        items[k].type = "leaf" \/ items[k].length > 0})

RECURSIVE LeafOffset(_, _)
LeafOffset(tree, j) ==
    IF j <= 1 THEN 0
    ELSE LeafOffset(tree, j - 1) + DirSize(tree.leaves[j - 1])

\* The entries as stored: a leaf pointer holds the place of its leaf in the
\* leaf section and its size.
Resolve(tree, items) ==
    [k \in 1..Len(items) |->
        IF items[k].type = "leaf"
        THEN DirEntry("leaf", items[k].tile_id, 0,
                      LeafOffset(tree, items[k].leaf),
                      DirSize(tree.leaves[items[k].leaf]))
        ELSE DirEntry("tile", items[k].tile_id, items[k].run_length,
                      items[k].offset, items[k].length)]

RECURSIVE LeafSection(_, _)
LeafSection(tree, j) ==
    IF j > Len(tree.leaves) THEN <<>>
    ELSE SerializeDirectory(Resolve(tree, tree.leaves[j]))
            \o LeafSection(tree, j + 1)

\* The archive of a structure: header, root directory, JSON metadata, leaf
\* directories, tile data; the directories are stored uncompressed.
TreeArchive(tree) ==
    LET root == SerializeDirectory(Resolve(tree, tree.root))
        leaf_section == LeafSection(tree, 1)
        leaf_at == 127 + Len(root) + Len(JsonBytes)
        h == [name \in {HeaderFields[k] : k \in 1..Len(HeaderFields)} |->
                CASE name = "root_dir_offset" -> 127
                  [] name = "root_dir_length" -> Len(root)
                  [] name = "json_metadata_offset" -> 127 + Len(root)
                  [] name = "json_metadata_length" -> Len(JsonBytes)
                  [] name = "leaf_dirs_offset" -> leaf_at
                  [] name = "leaf_dirs_length" -> Len(leaf_section)
                  [] name = "tile_data_offset" -> leaf_at + Len(leaf_section)
                  [] name = "tile_data_length" -> 6
                  [] name = "clustered" -> 1
                  [] name = "internal_compression" -> 1
                  [] name = "tile_compression" -> 1
                  [] name = "tile_type" -> 2
                  [] name = "max_zoom" -> 2
                  [] OTHER -> 0]
    IN  SerializeHeader(h) \o root \o JsonBytes \o leaf_section
           \o <<11, 12, 13, 14, 15, 16>>

\* The tiles looked up: those with the ids 0, 1, 3, 4 and 12.
FindCoords ==
    {c \in [z : 0..2, x : 0..3, y : 0..3] :
        /\ c.x < Pow2(c.z) /\ c.y < Pow2(c.z)
        /\ ZxyToTileId(c.z, c.x, c.y) \in {0, 1, 3, 4, 12}}

FindInit ==
    /\ FetchIdle /\ BuildIdle
    /\ fn = "_find_tile"
    /\ arg \in TreeSamples
    /\ ret = <<>>
    /\ reader = Some(OpenedReader(TreeArchive(arg)))
    /\ filePos = 127
    /\ directory_cache = <<>>
    /\ lookup = [t \in Threads |-> IdleLookup]

\* The steps of the first thread; no other thread calls the reader.
FindNext ==
    \/ \E c \in FindCoords : StartLookup(1, c)
    \/ CacheLookup(1)
    \/ DirSeek(1)
    \/ DirRead(1)
    \/ DirStore(1)
    \/ TileSeek(1)
    \/ TileRead(1)

\* The thread is not held up for ever.
SpecFind == FindInit /\ [][FindNext]_vars /\ WF_vars(FindNext)

(***************************************************************************)
(* Claims about _find_tile.                                                *)
(***************************************************************************)
\* The tile entries of a structure whose range holds the tile id.
EntriesHolding(tree, tile_id) ==
    LET dirs == {tree.root} \cup {tree.leaves[j] : j \in 1..Len(tree.leaves)}
    IN  {e \in UNION {{d[k] : k \in 1..Len(d)} : d \in dirs} :
            /\ e.type = "tile"
            /\ e.tile_id <= tile_id
            /\ tile_id <= e.tile_id + e.run_length - 1}

Target == ZxyToTileId(lookup[1].coord.z, lookup[1].coord.x, lookup[1].coord.y)

\* C21: on a well-formed structure _find_tile returns the offset and length
\* of the one tile entry whose range holds the target, be it a run or an
\* entry of a leaf directory, and not-found when no range holds it.
C21_FindsTheEntry ==
    (fn = "_find_tile" /\ ~arg.cyclic) =>
       /\ lookup[1].pc = "tile_seek" =>
             /\ EntriesHolding(arg, Target) /= {}
             /\ \A e \in EntriesHolding(arg, Target) :
                   lookup[1].slot = <<e.offset, e.length>>
       /\ (lookup[1].pc = "done"
              /\ lookup[1].result = TileReturned(Nothing)) =>
             EntriesHolding(arg, Target) = {}

\* C21 witness: the second tile id of a run in the second leaf was found.
C21_Witness ==
    /\ fn = "_find_tile" /\ arg = LeafTree
    /\ lookup[1].pc = "tile_seek"
    /\ Target = 4
    /\ lookup[1].slot = <<1, 1>>

\* C22: _find_tile never has more than the root and 10 leaf levels
\* entered, a lookup on a structure of leaf pointers alone ends not-found,
\* and every call of _find_tile returns.
C22_FindTerminates ==
    /\ [](fn = "_find_tile" =>
            /\ Len(lookup[1].frames) <= 11
            /\ (EntriesHolding(arg, Target) = {}
                   /\ lookup[1].pc \in {"tile_seek", "tile_read", "done"}) =>
                  (lookup[1].pc = "done"
                      /\ lookup[1].result = TileReturned(Nothing)))
    /\ (fn = "_find_tile" /\ lookup[1].pc = "directory")
          ~> (lookup[1].pc \in {"tile_seek", "done", "raised"})

\* C22 witness: on the leaf that points to itself the search stands in the
\* tenth leaf level.
C22_Witness ==
    /\ fn = "_find_tile" /\ arg = SelfLoop
    /\ Len(lookup[1].frames) = 11

(***************************************************************************)
(*  layer_inspector: the heuristic scan and the discovery over tiles       *)
(***************************************************************************)
\* 'Arial', 'Helvetica', 'Sans', 'Bold', 'Regular', 'Medium', 'true',
\* 'false', 'null', 'undefined', 'name', 'class', 'type', 'id'
reject_patterns ==
    {
     <<65, 114, 105, 97, 108>>,
     <<72, 101, 108, 118, 101, 116, 105, 99, 97>>,
     <<83, 97, 110, 115>>,
     <<66, 111, 108, 100>>,
     <<82, 101, 103, 117, 108, 97, 114>>,
     <<77, 101, 100, 105, 117, 109>>,
     <<116, 114, 117, 101>>,
     <<102, 97, 108, 115, 101>>,
     <<110, 117, 108, 108>>,
     <<117, 110, 100, 101, 102, 105, 110, 101, 100>>,
     <<110, 97, 109, 101>>,
     <<99, 108, 97, 115, 115>>,
     <<116, 121, 112, 101>>,
     <<105, 100>>}

\* _is_valid_layer_name(s): s matches ^[a-zA-Z_][a-zA-Z0-9_]*$, is none of
\* the reject patterns and has at least 3 characters.
IsValidLayerName(s) ==
    LET letter(c) == (65 <= c /\ c <= 90) \/ (97 <= c /\ c <= 122) \/ c = 95
        digit(c) == 48 <= c /\ c <= 57
    IN  /\ s /= <<>>
        /\ letter(s[1])
        /\ \A k \in 2..Len(s) : letter(s[k]) \/ digit(s[k])
        /\ s \notin reject_patterns
        /\ Len(s) >= 3

\* The order of Python strings: by code points, a prefix first.
LexLess(s, t) ==
    \E k \in 1..(Len(t)) :
        /\ \A j \in 1..(k - 1) : j <= Len(s) /\ s[j] = t[j]
        /\ \/ k = Len(s) + 1
           \/ k <= Len(s) /\ s[k] < t[k]

\* sorted(names)
RECURSIVE Sorted(_)
Sorted(names) ==
    IF names = {} THEN <<>>
    ELSE LET first == CHOOSE s \in names :
                         \A t \in names \ {s} : LexLess(s, t)
         IN  <<first>> \o Sorted(names \ {first})

\* extract_layer_names_simple(tile_content): at every position but the last
\* two a byte from 2 to 60 is taken for a length; the bytes after it, if
\* there are that many and they decode, are a candidate.
ExtractLayerNamesSimple(tile_content) ==
    LET content == DecompressTile(tile_content).data
        starts == {i \in 0..(Len(content) - 3) :
                     /\ 2 <= content[i + 1] /\ content[i + 1] <= 60
                     /\ i + 1 + content[i + 1] <= Len(content)}
        candidate(i) ==
            Utf8Decode(Slice(content, i + 1, i + 1 + content[i + 1]))
    IN  Sorted({candidate(i).text :
                  i \in {j \in starts : /\ candidate(j).ok
                                        /\ IsValidLayerName(candidate(j).text)}})

\* extract_layer_info_protobuf(tile_content): the walk of
\* extract_layer_names_protobuf; each TileLayerInfo stands here by its name.
ExtractLayerInfoProtobuf(tile_content) ==
    ExtractLayerNamesProtobuf(tile_content)

\* `if x not in all_layers: all_layers.append(x)` for each x of names
RECURSIVE AddNew(_, _)
AddNew(all_layers, names) ==
    IF names = <<>> THEN all_layers
    ELSE AddNew(IF \E k \in 1..Len(all_layers) : all_layers[k] = names[1]
                THEN all_layers ELSE Append(all_layers, names[1]),
                Tail(names))

\* What the discovery has gathered: the names in the order they were
\* added, and the sampled tiles (by their place in the sample) that
\* extract_layer_names_simple was called on.
Gathered(names, scanned) == [names |-> names, scanned |-> scanned]

\* discover_layers_from_tiles(tiles): the first 10 tiles are walked.
RECURSIVE DiscoverFrom(_, _, _, _)
DiscoverFrom(tile_list, i, sample_size, all_layers) ==
    IF i > sample_size THEN Gathered(all_layers, {})
    ELSE DiscoverFrom(tile_list, i + 1, sample_size,
            AddNew(all_layers,
                   ExtractLayerNamesProtobuf(tile_list[i].content).names))

DiscoverLayersFromTiles(tile_list) ==
    DiscoverFrom(tile_list, 1, Min(10, Len(tile_list)), <<>>)

\* The contents sampled by discover_layer_info_from_tiles: zoom by zoom in
\* ascending order up to 3 tiles of each, until there are sample_size.
RECURSIVE SampleByZoom(_, _, _, _)
SampleByZoom(tile_list, zooms, sample_size, sampled) ==
    IF zooms = {} THEN sampled
    ELSE LET z == CHOOSE m \in zooms : \A n \in zooms : m <= n
             by_zoom == SelectSeq(tile_list, LAMBDA t : t.z = z)
             more == sampled \o SubSeq(by_zoom, 1, Min(3, Len(by_zoom)))
         IN  IF Len(more) >= sample_size THEN more
             ELSE SampleByZoom(tile_list, zooms \ {z}, sample_size, more)

Sampled(tile_list) ==
    SampleByZoom(tile_list, {tile_list[k].z : k \in 1..Len(tile_list)},
                 Min(10, Len(tile_list)), <<>>)

\* The loop of discover_layer_info_from_tiles over the sampled contents:
\* the walk is tried and its layers added; the heuristic scan is the
\* handler of an exception of the walk.
RECURSIVE DiscoverInfoFrom(_, _, _)
DiscoverInfoFrom(sampled, i, found) ==
    IF i > Len(sampled) THEN found
    ELSE LET next(layer_infos) ==
                 IF layer_infos.kind = "return"
                 THEN DiscoverInfoFrom(sampled, i + 1,
                         Gathered(AddNew(found.names, layer_infos.names),
                                  found.scanned))
                 ELSE DiscoverInfoFrom(sampled, i + 1,
                         Gathered(AddNew(found.names,
                                     ExtractLayerNamesSimple(
                                         sampled[i].content)),
                                  found.scanned \cup {i}))
         IN  next(ExtractLayerInfoProtobuf(sampled[i].content))

DiscoverLayerInfoFromTiles(tile_list) ==
    DiscoverInfoFrom(Sampled(tile_list), 1, Gathered(<<>>, {}))

\* Tile contents: a tile with the layer 'roads'; one with two layers; the
\* bytes 5 'roads', in which the walk finds no layer and the scan the
\* string; the same with the rejected string 'name'; no bytes.
DiscoverContents ==
    {PbTile(<<LayerRoads>>), PbTile(<<LayerRoads, LayerParcels>>),
     <<5>> \o LayerRoads.name, <<4, 110, 97, 109, 101>>, <<>>}

DiscoverInit ==
    /\ OnlyCall
    /\ fn \in {"discover_layers_from_tiles", "discover_layer_info_from_tiles"}
    /\ arg \in SeqsUpTo([z : 0..1, content : DiscoverContents], MaxTiles)
    /\ ret = <<>>

DiscoverLayersCall ==
    /\ fn = "discover_layers_from_tiles"
    /\ ret = <<>>
    /\ ret' = <<DiscoverLayersFromTiles(arg)>>
    /\ UNCHANGED <<fn, arg>>
    /\ UNCHANGED notCall

DiscoverLayerInfoCall ==
    /\ fn = "discover_layer_info_from_tiles"
    /\ ret = <<>>
    /\ ret' = <<DiscoverLayerInfoFromTiles(arg)>>
    /\ UNCHANGED <<fn, arg>>
    /\ UNCHANGED notCall

DiscoverNext == DiscoverLayersCall \/ DiscoverLayerInfoCall

SpecDiscover == DiscoverInit /\ [][DiscoverNext]_vars

\* The tiles a discovery looks at, in the order it does.
LookedAt ==
    IF fn = "discover_layers_from_tiles"
    THEN SubSeq(arg, 1, Min(10, Len(arg)))
    ELSE Sampled(arg)

\* C25: the discovery applies the heuristic scan to a tile it looks at if
\* and only if the protobuf walk yields no layer name for that tile.
C25_FallbackWhenWalkFindsNothing ==
    (fn \in {"discover_layers_from_tiles", "discover_layer_info_from_tiles"}
        /\ ret /= <<>>) =>
       \A i \in 1..Len(LookedAt) :
           (i \in ret[1].scanned)
              <=> (ExtractLayerNamesProtobuf(LookedAt[i].content).names = <<>>)

(***************************************************************************)
(*   layer_inspector: the loops of the protobuf walk, iteration by         *)
(*   iteration                                                             *)
(***************************************************************************)
\* The bytes walked: tiles and layers as an encoder writes them, also with
\* an unknown field in front or followed by damaged bytes, and every short
\* string of bytes.
WalkInputs ==
    UNION {{PbTile(layers), PbLayer(layers[1])}
              \cup {field \o PbTile(layers) : field \in UnknownFields}
              \cup {PbTile(layers) \o junk : junk \in JunkSamples} :
           layers \in SeqsUpTo(LayerSamples, MaxLayers) \ {<<>>}}
       \cup SeqsUpTo(PbAlphabet, MaxPbLen)

\* Where a loop stands: `pos`, the number of iterations made, whether it
\* was left by `break`, and what it has found.
WalkState(pos, iterations, exit, found) ==
    [pos |-> pos, iterations |-> iterations, exit |-> exit, found |-> found]

WalkInit ==
    /\ OnlyCall
    /\ arg \in WalkInputs
    /\ \/ /\ fn = "extract_layer_names_protobuf: while pos < len(content)"
          /\ ret = <<WalkState(0, 0, FALSE, <<>>)>>
       \/ /\ fn = "_parse_layer: while pos < len(layer_data)"
          /\ ret = <<WalkState(0, 0, FALSE, Nothing)>>

\* One iteration of the loop of extract_layer_names_protobuf.
ExtractLoopStep ==
    /\ fn = "extract_layer_names_protobuf: while pos < len(content)"
    /\ ~ret[1].exit
    /\ ret[1].pos < Len(arg)
    /\ \E after \in {ExtractIteration(arg, ret[1].pos, ret[1].found)} :
          ret' = <<WalkState(after.pos, ret[1].iterations + 1, after.exit,
                             after.found)>>
    /\ UNCHANGED <<fn, arg>>
    /\ UNCHANGED notCall

\* One iteration of the loop of _parse_layer.
ParseLayerLoopStep ==
    /\ fn = "_parse_layer: while pos < len(layer_data)"
    /\ ~ret[1].exit
    /\ ret[1].pos < Len(arg)
    /\ \E after \in {ParseLayerIteration(arg, ret[1].pos, ret[1].found)} :
          ret' = <<WalkState(after.pos, ret[1].iterations + 1, after.exit,
                             after.found)>>
    /\ UNCHANGED <<fn, arg>>
    /\ UNCHANGED notCall

WalkNext == ExtractLoopStep \/ ParseLayerLoopStep

SpecWalk == WalkInit /\ [][WalkNext]_vars

\* C29: every iteration of the two loops moves the position forward or
\* leaves the loop, the position never goes back, and a walk over n bytes
\* makes at most n iterations.
C29_WalkTerminates ==
    /\ [][/\ ret'[1].pos >= ret[1].pos
          /\ ret'[1].pos > ret[1].pos \/ ret'[1].exit]_vars
    /\ [](ret[1].iterations <= Len(arg))

\* C29 witness: the loop over a tile of two layers has ended after two
\* iterations at the end of the tile.
C29_Witness ==
    /\ fn = "extract_layer_names_protobuf: while pos < len(content)"
    /\ arg = PbTile(<<LayerRoads, LayerParcels>>)
    /\ ret[1].iterations = 2
    /\ ret[1].pos = Len(arg)
    /\ ret[1].found = <<LayerRoads.text, LayerParcels.text>>

(***************************************************************************)
(*                        expand_coverage_async                            *)
(*                                                                         *)
(* The gaps of the captured tiles are computed, fetch_tiles is awaited for *)
(* them with its default concurrency, and the results are counted.         *)
(***************************************************************************)
\* `concurrency: int = 5` of fetch_tiles
DefaultConcurrency == 5

\* `for zoom, coords in missing.items(): all_missing.extend(coords)`: the
\* dictionary holds the zoom levels in the order of zoom_levels.
RECURSIVE AllMissingFrom(_, _, _)
AllMissingFrom(missing, zoom_levels, k) ==
    IF k > Len(zoom_levels) THEN <<>>
    ELSE (IF zoom_levels[k] \in DOMAIN missing THEN missing[zoom_levels[k]]
          ELSE <<>>)
            \o AllMissingFrom(missing, zoom_levels, k + 1)

\* all_missing of expand_coverage_async(captured_tiles, bounds, expand_zoom)
AllMissing(bounds, captured, expand_zoom) ==
    LET report == Analyze(bounds, captured, expand_zoom)
    IN  AllMissingFrom(FindMissingTiles(bounds, captured, report.zoom_levels),
                       report.zoom_levels, 1)

\* `auth_failures += 1` for every failure, whatever its status.
AuthFailuresOfAnyStatus(fetched) ==
    Cardinality({k \in 1..Len(fetched) : ~Success(fetched[k])})

\* `if result.status in (401, 403): auth_failures += 1` for the results
\* without success
AuthFailures(fetched) ==
    Cardinality({k \in 1..Len(fetched) :
                    ~Success(fetched[k])
                       /\ fetched[k].status \in {"401", "403"}})

\* new_tiles: (result.coord, result.content) of the results with success
NewTiles(fetched) ==
    LET kept == SelectSeq(fetched, Success)
    IN  [k \in 1..Len(kept) |->
            [coord |-> kept[k].coord, content |-> kept[k].content[1]]]

\* errors[:10]: f"{result.coord}: {result.error}" of the failures that have
\* an error text
Errors(fetched) ==
    LET failed == SelectSeq(fetched,
                            LAMBDA r : ~Success(r) /\ r.error /= None)
    IN  [k \in 1..Min(10, Len(failed)) |->
            [coord |-> failed[k].coord, error |-> failed[k].error]]

ExpansionResult(original_count, fetched_count, failed_count, auth_failures,
                new_tiles, errors) ==
    [original_count |-> original_count, fetched_count |-> fetched_count,
     failed_count |-> failed_count, auth_failures |-> auth_failures,
     new_tiles |-> new_tiles, errors |-> errors]

\* The calls made: bounds and captured tiles with at most MaxCoords tiles
\* missing.
ExpandInputs ==
    {a \in [bounds : AnalyzeBounds, captured : CapturedOrders,
            expand_zoom : 0..1] :
        Len(AllMissing(a.bounds, a.captured, a.expand_zoom)) <= MaxCoords}

ExpandInit ==
    /\ FetchIdle /\ BuildIdle /\ ReaderIdle
    /\ fn = "expand_coverage_async"
    /\ arg \in ExpandInputs
    /\ ret = <<>>

\* expand_coverage_async up to `await fetcher.fetch_tiles(...)`; with
\* nothing missing it returns at once.
StartExpand ==
    /\ fn = "expand_coverage_async"
    /\ mainPc = "idle"
    /\ ret = <<>>
    /\ \E all_missing \in {AllMissing(arg.bounds, arg.captured,
                                      arg.expand_zoom)} :
          IF all_missing = <<>>
          THEN /\ ret' = <<ExpansionResult(Len(arg.captured), 0, 0, 0, <<>>,
                                           <<>>)>>
               /\ UNCHANGED fetchVars
          ELSE /\ coords' = all_missing
               /\ concurrency' = DefaultConcurrency
               /\ mainPc' = "start"
               /\ UNCHANGED <<ret, taskPc, attempt, taskResult, semaphore,
                              doneOrder, results, completed>>
    /\ UNCHANGED <<fn, arg>>
    /\ UNCHANGED <<timeVars, buildVars, readVars>>

\* fetch_tiles has returned: the results are processed and the
\* ExpansionResult is returned.
FinishExpand ==
    /\ fn = "expand_coverage_async"
    /\ mainPc = "returned"
    /\ ret = <<>>
    /\ ret' = <<ExpansionResult(Len(arg.captured), Len(NewTiles(results)),
                                Len(coords) - Len(NewTiles(results)),
                                AuthFailures(results), NewTiles(results),
                                Errors(results))>>
    /\ UNCHANGED <<fn, arg>>
    /\ UNCHANGED <<fetchVars, timeVars, buildVars, readVars>>

ExpandNext ==
    \/ StartExpand
    \/ CreateTasks
    \/ \E i \in Tasks : AcquireSemaphore(i)
    \/ \E i \in Tasks : RateLimitDone(i)
    \/ \E i \in Tasks : \E outcome \in AnyOutcome : Respond(i, outcome)
    \/ \E i \in Tasks : \E ok \in BOOLEAN : ReadBody(i, ok)
    \/ \E i \in Tasks : BackoffDone(i)
    \/ Gather
    \/ ReturnResults
    \/ FinishExpand

SpecExpand == ExpandInit /\ [][ExpandNext]_vars

\* C27: the ExpansionResult accounts for every missing tile requested:
\* fetched_count + failed_count is their number, fetched_count the number
\* of new_tiles, auth_failures the number of tiles answered 401 or 403 and
\* at most failed_count, and every new tile is a requested tile, not a
\* captured one, taken once, with the body the server sent for it.
C27_ExpansionAccounts ==
    (fn = "expand_coverage_async" /\ ret /= <<>>) =>
       LET r == ret[1]
           denied == {i \in DOMAIN taskResult :
                         taskResult[i].status \in {"401", "403"}}
       IN  /\ r.fetched_count + r.failed_count = Len(coords)
           /\ r.fetched_count = Len(r.new_tiles)
           /\ r.auth_failures = Cardinality(denied)
           /\ r.auth_failures <= r.failed_count
           /\ \A k \in 1..Len(r.new_tiles) :
                 /\ \E i \in 1..Len(coords) : coords[i] = r.new_tiles[k].coord
                 /\ \A j \in 1..Len(arg.captured) :
                       arg.captured[j] /= r.new_tiles[k].coord
                 /\ r.new_tiles[k].content = Body(r.new_tiles[k].coord)
                 /\ \A j \in 1..Len(r.new_tiles) :
                       r.new_tiles[j].coord = r.new_tiles[k].coord => j = k

\* C27 witness: of two missing tiles one was fetched and one was refused.
C27_Witness ==
    /\ fn = "expand_coverage_async" /\ ret /= <<>>
    /\ Len(coords) = 2
    /\ ret[1].fetched_count = 1
    /\ ret[1].failed_count = 1
    /\ ret[1].auth_failures = 1

=============================================================================
